---------------------------- MODULE Spec2Model ----------------------------
(*************************************************************************)
(* A model of the QSM assembler (xpodev/qasm-py): the QPL file container *)
(* (qasm/qpl/file.py), the export table (qasm/qpl/exports.py), the stack *)
(* unification of instruction templates (qasm/asm/instructions) and the  *)
(* directive-driven assembler (qasm/asm/old/assembler.py).                *)
(*                                                                       *)
(* Bytes are naturals 0..255, byte strings are sequences of them. All    *)
(* native-order integers are little-endian (sys.byteorder of the build). *)
(* A call's outcome is Ok(value) or Raise(<exception name>).             *)
(*************************************************************************)
EXTENDS Integers, Sequences, FiniteSets, TLC

VARIABLES
    (* Header round trip (qpl/file.py Header, ArchitectureInfo) *)
    hArgs,      \* the constructor arguments of the header under test
    hStage,     \* "args" | "built" | "packed" | "parsed"
    hObj,       \* the Header built from hArgs
    hBytes,     \* Header.to_bytes(hObj)
    hBack,      \* Header.from_bytes(hBytes)
    (* QPLFile (qpl/file.py) *)
    fSections,  \* QPLFile._sections: insertion-ordered <<name, data>>
    fTable,     \* SectionTable._entries: insertion-ordered entries
    fHeader,    \* QPLFile._header
    fRet,       \* what the last QPLFile call returned or raised
    (* SectionTableEntry round trip (qpl/file.py) *)
    eStage,     \* "idle" | "args" | "built" | "packed" | "parsed"
    eArgs,      \* the constructor arguments of the entry under test
    eObj,       \* SectionTableEntry(name, size, offset)
    eBytes,     \* eObj.to_bytes()
    eBack,      \* SectionTableEntry.from_bytes(eBytes)
    (* ExportTable round trip (qpl/exports.py) *)
    xExports,   \* ExportTable._exports: insertion-ordered entries
    xStage,     \* "build" | "packed" | "parsed"
    xBytes,     \* ExportTable.to_bytes()
    xBack,      \* ExportTable.from_bytes(xBytes)
    (* Assembler (asm/old/assembler.py) *)
    aSource,    \* the nodes handed to Assembler.assemble
    aNext,      \* how many of them the loop has consumed
    aPc,        \* "ast" | "relocated" | "returned" | "written" | "raised"
    aExc,       \* the exception assemble raised ("" while none)
    aSection,   \* Assembler._current_section, by name ("None" for None)
    aFunction,  \* Assembler._current_function: an index of aObjects, 0 for None
    aObjects,   \* the Label objects created: labels, functions, imports, types
    aLabels,    \* LabelManager._labels: insertion-ordered indices of aObjects
    aSecLabels, \* SizedSection._labels of each sized section
    aConfig,    \* ConfigSection._config_values, insertion-ordered
    aCode,      \* CodeSection: _instructions and _size
    aData,      \* DataSection._data
    aTypes,     \* TypesSection: _types, _current_type and _size
    aImports,   \* ImportSection: _data, _current_export_table, _all_imports
    aExports,   \* ExportSection._exports: insertion-ordered indices of aObjects
    aCodeBytes, \* CodeSection.to_bytes: the bytes of each instruction
    (* Instruction.build_from (asm/instructions) *)
    iPc,        \* "idle" | "new" | "ready" | "built"
    iInstr,     \* the Instruction whose build_from is called
    iStack,     \* the Stack, bottom first
    iArgs,      \* the arguments of the last build_from call
    iRet,       \* the outcome of the last constructor or build_from call
    (* Tokenizer (parsing/tokenizer.py) *)
    tPc,        \* "idle" | "new" | "ready"
    tSource,    \* Tokenizer._source, a sequence of characters
    tCurrent,   \* Tokenizer._current, counted from 0
    tLine,      \* Tokenizer._line
    tChar,      \* Tokenizer._char
    tToken,     \* Tokenizer._token
    tOptions,   \* Tokenizer._options
    tBlocks,    \* the option blocks entered and not left, innermost last
    tCalls,     \* how many advance and eat calls were made
    tRet,       \* the outcome of the last call, with the state it was made in
    (* Parser (parsing/parser.py) over an ITokenizer *)
    pStage,     \* "idle" | "function" | "body" | "returned" | "raised"
    pSource,    \* the function or the body as it was written
    pTokens,    \* the tokens the ITokenizer supplies, EOF last
    pCursor,    \* which of them is tokenizer.token
    pBody,      \* FunctionDefinition._body, the nodes added so far
    pRet        \* the outcome of the last Parser call

headerVars == <<hArgs, hStage, hObj, hBytes, hBack>>
entryVars == <<eStage, eArgs, eObj, eBytes, eBack>>
fileVars == <<fSections, fTable, fHeader, fRet, entryVars>>
exportVars == <<xExports, xStage, xBytes, xBack>>
asmVars == <<aSource, aNext, aPc, aExc, aSection, aFunction, aObjects, aLabels,
             aSecLabels, aConfig, aCode, aData, aTypes, aImports, aExports,
             aCodeBytes>>
instrVars == <<iPc, iInstr, iStack, iArgs, iRet>>
parserVars == <<pStage, pSource, pTokens, pCursor, pBody, pRet>>
parsingVars == <<tPc, tSource, tCurrent, tLine, tChar, tToken, tOptions, tBlocks,
                 tCalls, tRet, parserVars>>
vars == <<headerVars, fileVars, exportVars, asmVars, instrVars, parsingVars>>

\* A call returns Ok(value) or raises: Raise(<exception name>).
None == [none |-> TRUE]
Ok(v) == [exc |-> "", v |-> v]
Raise(e) == [exc |-> e]
IsExc(r) == r.exc # ""

-----------------------------------------------------------------------------
(* Integer and byte helpers: Python int operators and struct formats.     *)

RECURSIVE BitAnd(_, _)
BitAnd(a, b) ==
    IF a = 0 \/ b = 0 THEN 0
    ELSE (a % 2) * (b % 2) + 2 * BitAnd(a \div 2, b \div 2)

RECURSIVE BitOr(_, _)
BitOr(a, b) ==
    IF a = 0 THEN b
    ELSE IF b = 0 THEN a
    ELSE (IF (a % 2) + (b % 2) > 0 THEN 1 ELSE 0) + 2 * BitOr(a \div 2, b \div 2)

BoolInt(b) == IF b THEN 1 ELSE 0

RECURSIVE Zeros(_)
Zeros(n) == IF n = 0 THEN <<>> ELSE <<0>> \o Zeros(n - 1)

RECURSIVE Concat(_)
Concat(ss) == IF ss = <<>> THEN <<>> ELSE Head(ss) \o Concat(Tail(ss))

RECURSIVE SumSeq(_)
SumSeq(s) == IF s = <<>> THEN 0 ELSE Head(s) + SumSeq(Tail(s))

Slice(s, from, to) == SubSeq(s, from + 1, to)

\* v >= 0 as n little-endian bytes; Raise when it does not fit.
RECURSIVE UnsignedLE(_, _)
UnsignedLE(v, n) ==
    IF n = 0 THEN <<>> ELSE <<v % 256>> \o UnsignedLE(v \div 256, n - 1)

RECURSIVE FitsUnsigned(_, _)
FitsUnsigned(v, n) ==
    IF v < 0 THEN FALSE
    ELSE IF v = 0 THEN TRUE
    ELSE IF n = 0 THEN FALSE
    ELSE FitsUnsigned(v \div 256, n - 1)

\* -2^(8n-1) <= v < 2^(8n-1), without computing 2^(8n)
FitsSigned(v, n) ==
    IF n = 0 THEN v = 0
    ELSE IF v >= 0 THEN FitsUnsigned(v \div 128, n - 1)
    ELSE FitsUnsigned((-(v + 1)) \div 128, n - 1)

Complement(bs) == [i \in 1..Len(bs) |-> 255 - bs[i]]

\* two's complement, little-endian, n bytes
SignedLE(v, n) ==
    IF v >= 0 THEN UnsignedLE(v, n) ELSE Complement(UnsignedLE(-(v + 1), n))

\* Magnitudes of 2^24 and more are not told apart: they read as Huge.
Huge == 256 * 256 * 256 * 127

RECURSIVE FromUnsignedLE(_)
FromUnsignedLE(bs) ==
    IF bs = <<>> THEN 0
    ELSE LET rest == FromUnsignedLE(Tail(bs))
         IN  IF rest >= 256 * 256 THEN Huge ELSE Head(bs) + 256 * rest

FromSignedLE(bs) ==
    IF bs = <<>> THEN 0
    ELSE IF bs[Len(bs)] >= 128
         THEN LET m == FromUnsignedLE(Complement(bs))
              IN  IF m = Huge THEN -Huge ELSE -m - 1
    ELSE FromUnsignedLE(bs)

\* struct format "i" read back: four bytes, two's complement, every value
\* of -2^31 .. 2^31-1 told apart
FromSigned32(bs) ==
    LET Magnitude(b) ==
            b[1] + 256 * b[2] + 256 * 256 * b[3] + 256 * 256 * 256 * b[4]
    IN  IF bs[4] >= 128 THEN -Magnitude(Complement(bs)) - 1
        ELSE Magnitude(bs)

\* struct formats "b", "h", "i": signed, native order; struct.error outside range
PackSigned(v, n) ==
    IF FitsSigned(v, n) THEN Ok(SignedLE(v, n)) ELSE Raise("struct.error")

\* struct format "<k>s": bytes padded with nulls (or cut) to k
PackS(bs, k) ==
    IF Len(bs) >= k THEN SubSeq(bs, 1, k) ELSE bs \o Zeros(k - Len(bs))

StripNullsNever(bs) == bs

\* str.strip("\0") of a decoded name: leading and trailing nulls removed
RECURSIVE StripNulls(_)
StripNulls(bs) ==
    IF bs = <<>> THEN <<>>
    ELSE IF Head(bs) = 0 THEN StripNulls(Tail(bs))
    ELSE IF bs[Len(bs)] = 0 THEN StripNulls(SubSeq(bs, 1, Len(bs) - 1))
    ELSE bs

-----------------------------------------------------------------------------
(* qpl/file.py: ArchitectureInfo and Header                               *)

ARCHITECTURE_MASK == 127
BYTE_ORDER_MASK == 128
HeaderSize == 16
SIGNATURE == <<81, 80, 76, 0>>

\* ArchitectureInfo.__int__: is_big_endian is a bool, so `&` sees 0 or 1
ArchInt(a) ==
    BitOr(BitAnd(BoolInt(~a.little), BYTE_ORDER_MASK),
          BitAnd(a.wordSize, ARCHITECTURE_MASK))

\* ArchitectureInfo.__init__(arch, little_endian); le is "None", "True" or "False"
ArchitectureInfo(arch, le) ==
    IF arch = 0 THEN Raise("ValueError")
    ELSE IF le = "True"
         THEN Ok([wordSize |-> arch, little |-> TRUE])
         ELSE Ok([wordSize |-> BitAnd(arch, ARCHITECTURE_MASK),
                  little |-> BitAnd(arch, BYTE_ORDER_MASK) = 0])

\* Header.__init__: the architecture argument goes through int() again
HeaderNew(flags, arch, numSections, vMajor, vMinor) ==
    LET a == ArchitectureInfo(arch, "None")
    IN  IF IsExc(a) THEN a
        ELSE Ok([flags |-> flags, arch |-> a.v, numSections |-> numSections,
                 version |-> <<vMajor, vMinor>>])

\* Header.to_bytes: STRUCT "4s b b b x h h 4x"
HeaderToBytes(h) ==
    LET parts == <<PackSigned(h.flags, 1), PackSigned(ArchInt(h.arch), 1),
                   PackSigned(h.numSections, 1), PackSigned(h.version[1], 2),
                   PackSigned(h.version[2], 2)>>
    IN  IF \E i \in 1..5 : IsExc(parts[i]) THEN Raise("struct.error")
        ELSE Ok(SIGNATURE \o parts[1].v \o parts[2].v \o parts[3].v \o <<0>>
                \o parts[4].v \o parts[5].v \o Zeros(4))

\* Header.from_bytes
HeaderFromBytes(data) ==
    IF Len(data) < HeaderSize THEN Raise("ValueError")
    ELSE IF Len(data) # HeaderSize THEN Raise("struct.error")
    ELSE IF SubSeq(data, 1, 4) # SIGNATURE THEN Raise("ValueError")
    ELSE HeaderNew(FromSignedLE(<<data[5]>>), FromSignedLE(<<data[6]>>),
                   FromSignedLE(<<data[7]>>), FromSignedLE(SubSeq(data, 9, 10)),
                   FromSignedLE(SubSeq(data, 11, 12)))

-----------------------------------------------------------------------------
(* Header round trip: the arguments are drawn in Init.                    *)

FlagValues == 0..7
WordSizes == {1, 4, 8, 127}
ArchArgs == WordSizes \cup {w + BYTE_ORDER_MASK : w \in WordSizes}
SectionCounts == {0, 6, 127}
Versions == {<<1, 0>>, <<2, 258>>}

IdleHeader ==
    /\ hArgs = None /\ hStage = "idle" /\ hObj = None
    /\ hBytes = None /\ hBack = None

IdleQPLFile ==
    /\ fSections = <<>> /\ fTable = <<>> /\ fHeader = None /\ fRet = None

IdleFile ==
    /\ IdleQPLFile
    /\ eStage = "idle" /\ eArgs = None /\ eObj = None /\ eBytes = None
    /\ eBack = None

IdleExport ==
    /\ xExports = <<>> /\ xStage = "idle" /\ xBytes = None /\ xBack = None

IdleInstr ==
    /\ iPc = "idle" /\ iInstr = None /\ iStack = <<>> /\ iArgs = <<>>
    /\ iRet = None

IdleParser ==
    /\ pStage = "idle" /\ pSource = None /\ pTokens = <<>> /\ pCursor = 0
    /\ pBody = <<>> /\ pRet = None

IdleTokenizer ==
    /\ tPc = "idle" /\ tSource = <<>> /\ tCurrent = 0 /\ tLine = 1 /\ tChar = 1
    /\ tToken = None /\ tOptions = <<>> /\ tBlocks = <<>> /\ tCalls = 0
    /\ tRet = None

IdleParsing == IdleTokenizer /\ IdleParser

IdleAsm ==
    /\ aSource = <<>> /\ aNext = 0 /\ aPc = "idle" /\ aExc = ""
    /\ aSection = "None" /\ aFunction = 0 /\ aObjects = <<>> /\ aLabels = <<>>
    /\ aSecLabels = <<>> /\ aConfig = <<>> /\ aCode = <<>> /\ aData = <<>>
    /\ aTypes = <<>> /\ aImports = <<>> /\ aExports = <<>> /\ aCodeBytes = <<>>

\* via |-> "int": Header(flags, <int>, ...); via |-> "info": the caller
\* builds ArchitectureInfo(arch, le) and hands that to Header
InitHeader ==
    /\ hArgs \in [flags : FlagValues, arch : ArchArgs,
                  via : {"int", "info"}, le : {"None", "True", "False"},
                  numSections : SectionCounts, version : Versions]
    /\ hArgs.via = "int" => hArgs.le = "None"
    /\ hStage = "args" /\ hObj = None /\ hBytes = None /\ hBack = None
    /\ IdleFile /\ IdleExport /\ IdleAsm /\ IdleInstr /\ IdleParsing

\* what the caller asked for: ArchitectureInfo(arch, le) as constructed
RequestedArch == ArchitectureInfo(hArgs.arch, hArgs.le)

HeaderBuild ==
    /\ hStage = "args"
    /\ hObj' = HeaderNew(hArgs.flags,
                         IF hArgs.via = "int" THEN hArgs.arch
                         ELSE ArchInt(RequestedArch.v),
                         hArgs.numSections, hArgs.version[1], hArgs.version[2])
    /\ hStage' = "built"
    /\ UNCHANGED <<hArgs, hBytes, hBack, fileVars, exportVars, asmVars, instrVars, parsingVars>>

HeaderPack ==
    /\ hStage = "built" /\ ~IsExc(hObj)
    /\ hBytes' = HeaderToBytes(hObj.v)
    /\ hStage' = "packed"
    /\ UNCHANGED <<hArgs, hObj, hBack, fileVars, exportVars, asmVars, instrVars, parsingVars>>

HeaderParse ==
    /\ hStage = "packed" /\ ~IsExc(hBytes)
    /\ hBack' = HeaderFromBytes(hBytes.v)
    /\ hStage' = "parsed"
    /\ UNCHANGED <<hArgs, hObj, hBytes, fileVars, exportVars, asmVars, instrVars, parsingVars>>

NextHeader == HeaderBuild \/ HeaderPack \/ HeaderParse

SpecHeader == InitHeader /\ [][NextHeader]_vars

\* C7: a header round trip keeps flags, word size, byte order, section
\* count and version, and its serialized form is 16 bytes starting with the
\* magic.
C7_HeaderRoundTrip ==
    hStage = "parsed" =>
        /\ Len(hBytes.v) = HeaderSize
        /\ SubSeq(hBytes.v, 1, 4) = SIGNATURE
        /\ ~IsExc(hBack)
        /\ hBack.v.flags = hObj.v.flags
        /\ hBack.v.arch.wordSize = hObj.v.arch.wordSize
        /\ hBack.v.arch.little = hObj.v.arch.little
        /\ hBack.v.numSections = hObj.v.numSections
        /\ hBack.v.version = hObj.v.version

-----------------------------------------------------------------------------
(* qpl/file.py: SectionTableEntry, SectionTable, QPLFile                  *)

MAX_SECTION_NAME_LENGTH == 8
EntrySize == 16

SectionTableEntryNew(name, size, offset) ==
    IF Len(name) > MAX_SECTION_NAME_LENGTH THEN Raise("IndexError")
    ELSE Ok([name |-> name, size |-> size, offset |-> offset])

\* SectionTableEntry.to_bytes: STRUCT "8s i i"
EntryToBytes(e) ==
    LET sz == PackSigned(e.size, 4)
        off == PackSigned(e.offset, 4)
    IN  IF \E i \in 1..Len(e.name) : e.name[i] >= 128
        THEN Raise("UnicodeEncodeError")
        ELSE IF IsExc(sz) \/ IsExc(off) THEN Raise("struct.error")
        ELSE Ok(PackS(e.name, MAX_SECTION_NAME_LENGTH) \o sz.v \o off.v)

HasName(seq, name) == \E i \in 1..Len(seq) : seq[i].name = name

\* SectionTable.set_entry: a dict assignment keeps an existing key's place
SetEntry(table, e) ==
    IF HasName(table, e.name)
    THEN [i \in 1..Len(table) |-> IF table[i].name = e.name THEN e ELSE table[i]]
    ELSE Append(table, e)

FirstOffsetRelative(n) == 0
\* where the first section starts: after the header and the section table
FirstOffset(n) == HeaderSize + EntrySize * n

\* QPLFile.calculate_section_offsets
RECURSIVE OffsetsFrom(_, _, _)
OffsetsFrom(sections, table, offset) ==
    IF sections = <<>> THEN table
    ELSE LET s == Head(sections)
             e == [name |-> s.name, size |-> Len(s.data), offset |-> offset]
         IN  OffsetsFrom(Tail(sections), SetEntry(table, e), offset + e.size)

CalculateSectionOffsets(sections, table) ==
    OffsetsFrom(sections, table, FirstOffset(Len(sections)))

RECURSIVE EntriesToBytes(_)
EntriesToBytes(table) ==
    IF table = <<>> THEN Ok(<<>>)
    ELSE LET h == EntryToBytes(Head(table))
             t == EntriesToBytes(Tail(table))
         IN  IF IsExc(h) THEN h ELSE IF IsExc(t) THEN t ELSE Ok(h.v \o t.v)

SectionData(sections) == Concat([i \in 1..Len(sections) |-> sections[i].data])

QPLAddSectionNonEmpty(sections, table, name, data) ==
    IF data = <<>> THEN Ok([sections |-> sections, table |-> table])
    ELSE Ok([sections |-> Append(sections, [name |-> name, data |-> data]),
             table |-> Append(table, [name |-> name, size |-> Len(data),
                                      offset |-> 0])])
\* QPLFile.add_section: the sections and the table after the call, or the
\* exception it raises
QPLAddSection(sections, table, name, data) ==
    IF name = <<>> THEN Raise("ValueError")
    ELSE IF Len(name) > MAX_SECTION_NAME_LENGTH THEN Raise("IndexError")
    ELSE IF HasName(sections, name) THEN Raise("KeyError")
    ELSE IF HasName(table, name) THEN Raise("KeyError")
    ELSE Ok([sections |-> Append(sections, [name |-> name, data |-> data]),
             table |-> Append(table, [name |-> name, size |-> Len(data),
                                      offset |-> 0])])

\* QPLFile.to_bytes(flags, arch): the header and table it leaves in the file
\* and the bytes it returns (or the exception)
QPLToBytes(sections, table, header, flags, arch) ==
    LET h == HeaderNew(flags, arch, Len(sections), 1, 0)
        hb == HeaderToBytes(h.v)
        t == CalculateSectionOffsets(sections, table)
        tb == EntriesToBytes(t)
    IN  IF IsExc(h) THEN [header |-> header, table |-> table, ret |-> h]
        ELSE IF IsExc(hb) THEN [header |-> h.v, table |-> table, ret |-> hb]
        ELSE IF IsExc(tb) THEN [header |-> h.v, table |-> t, ret |-> tb]
        ELSE [header |-> h.v, table |-> t,
              ret |-> Ok(hb.v \o tb.v \o SectionData(sections))]

-----------------------------------------------------------------------------
(* QPLFile: sections are added and the file is serialized, in any order.  *)

MaxSections == 3
LongName == <<115, 101, 99, 116, 105, 111, 110, 95, 57>>
SectionNames == {<<>>, <<97>>, <<99, 100>>,
                 SubSeq(LongName, 1, MAX_SECTION_NAME_LENGTH), LongName}
SectionDatas == {<<>>, <<7>>, <<8, 9>>}

InitFile == IdleHeader /\ IdleFile /\ IdleExport /\ IdleAsm /\ IdleInstr /\ IdleParsing

FAddSection ==
    /\ Len(fSections) < MaxSections
    /\ \E name \in SectionNames, data \in SectionDatas :
        LET r == QPLAddSection(fSections, fTable, name, data)
        IN  /\ fSections' = IF IsExc(r) THEN fSections ELSE r.v.sections
            /\ fTable' = IF IsExc(r) THEN fTable ELSE r.v.table
            /\ fRet' = [op |-> "add_section", exc |-> r.exc]
    /\ UNCHANGED <<fHeader, entryVars, headerVars, exportVars, asmVars, instrVars,
                   parsingVars>>

FToBytes ==
    /\ \E flags \in {0, 5}, arch \in {0, 8} :
        LET r == QPLToBytes(fSections, fTable, fHeader, flags, arch)
        IN  /\ fHeader' = r.header
            /\ fTable' = r.table
            /\ fRet' = [op |-> "to_bytes", exc |-> r.ret.exc,
                        v |-> IF IsExc(r.ret) THEN <<>> ELSE r.ret.v]
    /\ UNCHANGED <<fSections, entryVars, headerVars, exportVars, asmVars, instrVars,
                   parsingVars>>

NextFile == FAddSection \/ FToBytes

SpecFile == InitFile /\ [][NextFile]_vars

Wrote == fRet # None /\ fRet.op = "to_bytes" /\ fRet.exc = ""

DataBefore(i) == SumSeq([j \in 1..(i - 1) |-> Len(fSections[j].data)])

\* C6: in the bytes of to_bytes the header counts the sections, the i-th
\* table entry names the i-th added section with its length and its absolute
\* offset 16 + 16n + (lengths before it), and the bytes there are its data.
C6_SectionLayout ==
    Wrote =>
        LET n == Len(fSections)
            b == fRet.v
            entry(i) == SubSeq(b, HeaderSize + EntrySize * (i - 1) + 1,
                               HeaderSize + EntrySize * i)
            off(i) == HeaderSize + EntrySize * n + DataBefore(i)
        IN  /\ b[7] = n
            /\ Len(b) = HeaderSize + EntrySize * n + DataBefore(n + 1)
            /\ \A i \in 1..n :
                /\ SubSeq(entry(i), 1, 8) = PackS(fSections[i].name, 8)
                /\ FromSignedLE(SubSeq(entry(i), 9, 12)) = Len(fSections[i].data)
                /\ FromSignedLE(SubSeq(entry(i), 13, 16)) = off(i)
                /\ SubSeq(b, off(i) + 1, off(i) + Len(fSections[i].data))
                       = fSections[i].data

C6_Witness ==
    /\ Wrote
    /\ Len(fSections) = 3
    /\ fSections[1].data # <<>>
    /\ fSections[3].data # <<>>

-----------------------------------------------------------------------------
(* asm/bin_types.py: the binary type registry                             *)

NATIVE_SIZE == 8

\* TYPES[1:], by name; TYPES[0] is None
TYPES == <<"void", "bool", "ptr", "rptr", "int", "int8", "int16", "int32",
           "int64", "float", "float32", "float64", "str", "raw", "local",
           "arg">>

\* TYPE_INDEX[name]
TypeIndex(name) == CHOOSE i \in 1..Len(TYPES) : TYPES[i] = name

\* TYPES[i] of a Python list of 17 items: negative indices count from the end
TypeAt(i) ==
    IF i \in 1..Len(TYPES) THEN Ok(TYPES[i])
    ELSE IF i = 0 \/ i = -(Len(TYPES) + 1) THEN Ok("None")
    ELSE IF i < 0 /\ i >= -Len(TYPES) THEN Ok(TYPES[Len(TYPES) + 1 + i])
    ELSE Raise("IndexError")

\* Int.to_bytes: v.to_bytes(size, order, signed=v < 0)
IntToBytes(v, size) ==
    IF v < 0
    THEN (IF FitsSigned(v, size) THEN Ok(SignedLE(v, size))
          ELSE Raise("OverflowError"))
    ELSE (IF FitsUnsigned(v, size) THEN Ok(UnsignedLE(v, size))
          ELSE Raise("OverflowError"))

\* Int.from_bytes: signed
IntFromBytes(bs) == FromSignedLE(bs)

\* io.read(n) at position pos: fewer bytes at the end of the data
Read(data, pos, n) ==
    SubSeq(data, pos + 1, IF pos + n > Len(data) THEN Len(data) ELSE pos + n)

-----------------------------------------------------------------------------
(* qpl/exports.py: ExportTableEntry and ExportTable                       *)

ExportTerminatorMissing == <<>>
\* the byte that ends the parameter list: Void.index()
ExportTerminator == <<TypeIndex("void")>>

\* struct format "P": an unsigned native word
PackP(v) ==
    IF FitsUnsigned(v, NATIVE_SIZE) THEN Ok(UnsignedLE(v, NATIVE_SIZE))
    ELSE Raise("struct.error")

\* ExportTableEntry.to_bytes: name, null, pack("P b <n>b b b", ...)
ExportEntryToBytes(e) ==
    LET off == PackP(e.offset)
        nl == PackSigned(e.numLocals, 1)
    IN  IF IsExc(off) \/ IsExc(nl) THEN Raise("struct.error")
        ELSE Ok(e.name \o <<0>> \o off.v \o <<TypeIndex(e.returnType)>>
                \o [i \in 1..Len(e.params) |-> TypeIndex(e.params[i])]
                \o ExportTerminator \o nl.v)

\* the name loop of from_binary_io: reads up to the first null; at the end
\* of the data io.read(1) is b"" forever
RECURSIVE ReadName(_, _)
ReadName(data, pos) ==
    IF pos >= Len(data) THEN Raise("DoesNotReturn")
    ELSE IF data[pos + 1] = 0 THEN Ok([name |-> <<>>, pos |-> pos + 1])
    ELSE LET r == ReadName(data, pos + 1)
         IN  IF IsExc(r) THEN r
             ELSE Ok([name |-> <<data[pos + 1]>> \o r.v.name, pos |-> r.v.pos])

\* the parameter loop of from_binary_io: reads type indices up to Void
RECURSIVE ReadParams(_, _)
ReadParams(data, pos) ==
    IF pos >= Len(data) THEN Raise("DoesNotReturn")
    ELSE LET t == TypeAt(IntFromBytes(Read(data, pos, 1)))
         IN  IF IsExc(t) THEN t
             ELSE IF t.v = "void" THEN Ok([params |-> <<>>, pos |-> pos + 1])
             ELSE LET r == ReadParams(data, pos + 1)
                  IN  IF IsExc(r) THEN r
                      ELSE Ok([params |-> <<t.v>> \o r.v.params,
                               pos |-> r.v.pos])

\* ExportTableEntry.from_binary_io
ExportEntryFromIO(data, pos) ==
    LET nm == ReadName(data, pos)
        p1 == nm.v.pos
        offset == IntFromBytes(Read(data, p1, NATIVE_SIZE))
        p2 == p1 + Len(Read(data, p1, NATIVE_SIZE))
        ret == TypeAt(IntFromBytes(Read(data, p2, 1)))
        p3 == p2 + Len(Read(data, p2, 1))
        ps == ReadParams(data, p3)
        p4 == ps.v.pos
        numLocals == IntFromBytes(Read(data, p4, 1))
    IN  IF IsExc(nm) THEN nm
        ELSE IF \E i \in 1..Len(nm.v.name) : nm.v.name[i] >= 128
             THEN Raise("UnicodeDecodeError")
        ELSE IF IsExc(ret) THEN ret
        ELSE IF IsExc(ps) THEN ps
        ELSE Ok([entry |-> [name |-> nm.v.name, offset |-> offset,
                            returnType |-> ret.v, params |-> ps.v.params,
                            numLocals |-> numLocals],
                 pos |-> p4 + Len(Read(data, p4, 1))])

\* ExportTable.add_export
ExportTableAdd(exports, e) ==
    IF HasName(exports, e.name) THEN Raise("KeyError")
    ELSE Ok(Append(exports, e))

\* ExportTable.to_bytes: Int.to_bytes(count), then the entries
RECURSIVE ExportEntriesToBytes(_)
ExportEntriesToBytes(exports) ==
    IF exports = <<>> THEN Ok(<<>>)
    ELSE LET h == ExportEntryToBytes(Head(exports))
             t == ExportEntriesToBytes(Tail(exports))
         IN  IF IsExc(h) THEN h ELSE IF IsExc(t) THEN t ELSE Ok(h.v \o t.v)

ExportTableToBytes(exports) ==
    LET n == IntToBytes(Len(exports), NATIVE_SIZE)
        es == ExportEntriesToBytes(exports)
    IN  IF IsExc(n) THEN n ELSE IF IsExc(es) THEN es ELSE Ok(n.v \o es.v)

\* ExportTable.from_binary_io: the loop over range(num_exports)
RECURSIVE ReadExports(_, _, _, _)
ReadExports(data, pos, left, exports) ==
    IF left <= 0 THEN Ok(exports)
    ELSE LET e == ExportEntryFromIO(data, pos)
             added == ExportTableAdd(exports, e.v.entry)
         IN  IF IsExc(e) THEN e
             ELSE IF IsExc(added) THEN added
             ELSE ReadExports(data, e.v.pos, left - 1, added.v)

ExportTableFromBytes(data) ==
    ReadExports(data, Len(Read(data, 0, NATIVE_SIZE)),
                IntFromBytes(Read(data, 0, NATIVE_SIZE)), <<>>)

-----------------------------------------------------------------------------
(* Export table round trip: entries are added, the table is serialized    *)
(* and parsed back.                                                       *)

MaxExports == 2
MaxParams == 2
ExportNames == {<<102>>, <<103, 49>>}
ExportOffsets == {0, 300}
ExportParamTypes == {"void", "int"}
ExportReturnTypes == {"void", "ptr"}
ExportLocals == {0, 3}

RECURSIVE SeqsUpTo(_, _)
SeqsUpTo(S, n) ==
    IF n = 0 THEN {<<>>}
    ELSE LET shorter == SeqsUpTo(S, n - 1)
         IN  shorter \cup {Append(q, x) : q \in shorter, x \in S}

InitExport ==
    /\ xExports = <<>> /\ xStage = "build" /\ xBytes = None /\ xBack = None
    /\ IdleHeader /\ IdleFile /\ IdleAsm /\ IdleInstr /\ IdleParsing

XAddExport ==
    /\ xStage = "build"
    /\ Len(xExports) < MaxExports
    /\ \E name \in ExportNames, offset \in ExportOffsets,
          ret \in ExportReturnTypes, ps \in SeqsUpTo(ExportParamTypes, MaxParams),
          nl \in ExportLocals :
        LET r == ExportTableAdd(xExports,
                     [name |-> name, offset |-> offset, returnType |-> ret,
                      params |-> ps, numLocals |-> nl])
        IN  xExports' = IF IsExc(r) THEN xExports ELSE r.v
    /\ UNCHANGED <<xStage, xBytes, xBack, headerVars, fileVars, asmVars, instrVars, parsingVars>>

XToBytes ==
    /\ xStage = "build"
    /\ xBytes' = ExportTableToBytes(xExports)
    /\ xStage' = "packed"
    /\ UNCHANGED <<xExports, xBack, headerVars, fileVars, asmVars, instrVars, parsingVars>>

XFromBytes ==
    /\ xStage = "packed" /\ ~IsExc(xBytes)
    /\ xBack' = ExportTableFromBytes(xBytes.v)
    /\ xStage' = "parsed"
    /\ UNCHANGED <<xExports, xBytes, headerVars, fileVars, asmVars, instrVars, parsingVars>>

NextExport == XAddExport \/ XToBytes \/ XFromBytes

SpecExport == InitExport /\ [][NextExport]_vars

NoVoidParams ==
    \A i \in 1..Len(xExports) :
        \A k \in 1..Len(xExports[i].params) : xExports[i].params[k] # "void"

SameExports ==
    /\ ~IsExc(xBack)
    /\ Len(xBack.v) = Len(xExports)
    /\ \A i \in 1..Len(xExports) :
        /\ xBack.v[i].name = xExports[i].name
        /\ xBack.v[i].offset = xExports[i].offset
        /\ xBack.v[i].returnType = xExports[i].returnType
        /\ xBack.v[i].params = xExports[i].params
        /\ xBack.v[i].numLocals = xExports[i].numLocals

\* C8 as stated: every export table (distinct names, registry types) is
\* recovered entry by entry by from_bytes(to_bytes(t)).
C8_Original == xStage = "parsed" => SameExports

\* C8 as amended: the round trip recovers every entry when no parameter
\* type is void (the byte that ends the parameter list).
C8_ExportRoundTrip == (xStage = "parsed" /\ NoVoidParams) => SameExports

C8_Witness ==
    /\ xStage = "parsed" /\ NoVoidParams /\ SameExports
    /\ Len(xExports) = 2
    /\ Len(xExports[1].params) = 2
    /\ xExports[2].offset = 300
    /\ xExports[2].numLocals = 3

-----------------------------------------------------------------------------
(* asm/bin_types.py as the assembler uses it: type classes, their sizes,  *)
(* parse and to_bytes. Float types are outside the inputs.                *)

\* a registry class, a TypeDefinition object, or the class Pointer[definition]
BinType(name) == [k |-> "bin", name |-> name]
DefType(name) == [k |-> "def", name |-> name]
PointerTo(name) == [k |-> "ptrto", name |-> name]

\* cls.name
TypeName(t) == IF t.k = "ptrto" THEN "ptr" ELSE t.name

TypeNames == {TYPES[i] : i \in 1..Len(TYPES)}

\* TYPE_INDEX[name] as a dict lookup
IndexOfName(name) ==
    IF name \in TypeNames THEN Ok(TypeIndex(name)) ELSE Raise("KeyError")

\* cls._size of the registry classes and of TypeSize ("sizeof")
SIZES ==
    [void |-> 0, bool |-> 1, ptr |-> NATIVE_SIZE, rptr |-> NATIVE_SIZE,
     int |-> NATIVE_SIZE, int8 |-> 1, int16 |-> 2, int32 |-> 4, int64 |-> 8,
     float |-> NATIVE_SIZE, float32 |-> 4, float64 |-> 8,
     str |-> NATIVE_SIZE, raw |-> NATIVE_SIZE, local |-> 1, arg |-> 1,
     sizeof |-> NATIVE_SIZE, type |-> 0, var |-> 0]

\* issubclass(t, Pointer)
IsPointer(t) == t.k = "ptrto" \/ (t.k = "bin" /\ t.name \in {"ptr", "rptr", "raw", "str"})

\* issubclass(t, Int)
IsInt(t) ==
    t.k = "bin" /\ t.name \in {"int", "int8", "int16", "int32", "int64",
                               "sizeof", "local", "arg"}

\* a token value is a str (source text) or an int (made by the assembler)
StrValue(s) == [isInt |-> FALSE, s |-> s, i |-> 0]
IntValue(i) == [isInt |-> TRUE, s |-> "", i |-> i]

\* int(text) for the literals and names of the inputs
IntOfStr(s) ==
    CASE s = "0" -> Ok(0)
      [] s = "1" -> Ok(1)
      [] s = "2" -> Ok(2)
      [] s = "5" -> Ok(5)
      [] s = "300" -> Ok(300)
      [] s = "-1" -> Ok(-1)
      [] OTHER -> Raise("ValueError")

\* int(v)
IntOf(v) == IF v.isInt THEN Ok(v.i) ELSE IntOfStr(v.s)

\* str.encode("ascii") for the section and function names of the inputs
Ascii(s) ==
    CASE s = "config" -> <<99, 111, 110, 102, 105, 103>>
      [] s = "types" -> <<116, 121, 112, 101, 115>>
      [] s = "data" -> <<100, 97, 116, 97>>
      [] s = "code" -> <<99, 111, 100, 101>>
      [] s = "imports" -> <<105, 109, 112, 111, 114, 116, 115>>
      [] s = "exports" -> <<101, 120, 112, 111, 114, 116, 115>>
      [] s = "main" -> <<109, 97, 105, 110>>
      [] s = "f" -> <<102>>
      [] s = "g" -> <<103>>
      [] s = "a" -> <<97>>
      [] s = "b" -> <<98>>
      [] s = "L" -> <<76>>
      [] s = "T" -> <<84>>
      [] s = "x" -> <<120>>
      [] s = "y" -> <<121>>
      [] OTHER -> <<63>>

AsciiNames == {"config", "types", "data", "code", "imports", "exports",
               "main", "f", "g", "a", "b", "L", "T", "x", "y"}

\* bytes.decode("ascii") back to one of those names
Decode(bs) ==
    IF \E s \in AsciiNames : Ascii(s) = bs
    THEN CHOOSE s \in AsciiNames : Ascii(s) = bs
    ELSE "?"

\* cls.parse(v) of a type class; the result is an int (a bool is 0 or 1)
TypeParse(t, v) ==
    CASE IsInt(t) \/ (t.k = "bin" /\ t.name \in {"ptr", "rptr"}) \/ t.k = "ptrto"
            -> IntOf(v)
      [] t.k = "bin" /\ t.name = "bool"
            -> IF ~v.isInt /\ v.s \in {"true", "false"}
               THEN Ok(BoolInt(v.s = "true")) ELSE Raise("KeyError")
      [] t.k = "bin" /\ t.name = "void" -> Ok(0)

\* cls.to_bytes(v) for an int v
TypeToBytes(t, v) ==
    CASE IsInt(t) -> IntToBytes(v, SIZES[t.name])
      [] t.k = "bin" /\ t.name = "bool"
            -> IF FitsUnsigned(v, 1) THEN Ok(UnsignedLE(v, 1))
               ELSE Raise("OverflowError")
      [] t.k = "bin" /\ t.name = "rptr"
            -> IF FitsSigned(v, NATIVE_SIZE) THEN Ok(SignedLE(v, NATIVE_SIZE))
               ELSE Raise("OverflowError")
      [] t.k = "ptrto" \/ (t.k = "bin" /\ t.name = "ptr")
            -> IF FitsUnsigned(v, NATIVE_SIZE) THEN Ok(UnsignedLE(v, NATIVE_SIZE))
               ELSE Raise("OverflowError")
      [] t.k = "bin" /\ t.name = "void" -> Ok(<<>>)
      [] t.k = "bin" /\ t.name = "raw" -> Raise("TypeError")
      [] t.k = "bin" /\ t.name = "str" -> Raise("AttributeError")
      [] t.k = "bin" /\ t.name = "InstructionArgument" -> Raise("AttributeError")

\* parsing/old/parser.py bin_type_from_token_type: a literal's token kind is
\* its provisional type
BinTypeFromTokenType(tt) ==
    CASE tt = "Literal_Int" -> Ok(BinType("int"))
      [] tt = "Literal_Bool" -> Ok(BinType("bool"))
      [] tt = "Literal_String" -> Ok(BinType("str"))
      [] OTHER -> Raise("KeyError")

-----------------------------------------------------------------------------
(* parsing/old/nodes.py, parsing/asm_token.py: the nodes of a source      *)

Token(type, value) == [type |-> type, value |-> value]

\* InstructionNode.InstructionArgument(value, type_information)
InstructionArgument(token, type) == [value |-> token, type |-> type]

Identifier(name) == InstructionArgument(Token("Identifier", StrValue(name)), "None")
Literal(text) == InstructionArgument(Token("Literal_Int", StrValue(text)), "None")
Typed(type, arg) == InstructionArgument(arg.value, type)

SectionNode(name) == [node |-> "section", name |-> name]
InstructionNode(opname, arguments) ==
    [node |-> "instruction", opname |-> opname, arguments |-> arguments]
LabelNode(name) == [node |-> "label", name |-> name]
ParameterNode(name, type) == [name |-> name, type |-> type]
FunctionDefinitionNode(name, returnType, parameters, modifiers) ==
    [node |-> "func", name |-> name, returnType |-> returnType,
     parameters |-> parameters, modifiers |-> modifiers]
VariableDefinitionNode(type, name) == [node |-> "var", type |-> type, name |-> name]
TypeDefinitionNode(name) == [node |-> "type", name |-> name]

-----------------------------------------------------------------------------
(* asm/old/instructions.py: the instruction table                         *)

OPCODE_SIZE == 1

InstructionDefinition(name, code, types) ==
    [name |-> name, code |-> code, types |-> types]

INSTRUCTIONS ==
    [nop |-> InstructionDefinition("nop", 0, <<>>),
     dlog |-> InstructionDefinition("dlog", 1, <<"type">>),
     push |-> InstructionDefinition("push", 2, <<"var">>),
     pop |-> InstructionDefinition("pop", 3, <<"var">>),
     call |-> InstructionDefinition("call", 4, <<"rptr">>),
     unsafe_call |-> InstructionDefinition("unsafe_call", 5, <<"rptr">>),
     ret |-> InstructionDefinition("ret", 6, <<>>),
     jmp |-> InstructionDefinition("jmp", 7, <<"rptr">>),
     jmp_true |-> InstructionDefinition("jmp_true", 8, <<"rptr">>),
     jmp_false |-> InstructionDefinition("jmp_false", 9, <<"rptr">>),
     cmp_gt |-> InstructionDefinition("cmp_gt", 10, <<"type", "type">>),
     cmp_lt |-> InstructionDefinition("cmp_lt", 11, <<"type", "type">>),
     cmp_ge |-> InstructionDefinition("cmp_ge", 12, <<"type", "type">>),
     cmp_le |-> InstructionDefinition("cmp_le", 13, <<"type", "type">>),
     cmp_eq |-> InstructionDefinition("cmp_eq", 14, <<"type", "type">>),
     cmp_ne |-> InstructionDefinition("cmp_ne", 15, <<"type", "type">>),
     add |-> InstructionDefinition("add", 16, <<"type", "type">>),
     sub |-> InstructionDefinition("sub", 17, <<"type", "type">>),
     mul |-> InstructionDefinition("mul", 18, <<"type", "type">>),
     div |-> InstructionDefinition("div", 19, <<"type", "type">>),
     mod |-> InstructionDefinition("mod", 20, <<"type", "type">>),
     push_mem |-> InstructionDefinition("push_mem", 21, <<"type", "type">>),
     pop_mem |-> InstructionDefinition("pop_mem", 22, <<"type", "type">>),
     new |-> InstructionDefinition("new", 23, <<"sizeof", "int">>),
     free |-> InstructionDefinition("free", 24, <<>>),
     dup |-> InstructionDefinition("dup", 25, <<>>),
     exit |-> InstructionDefinition("exit", -1, <<>>)]

-----------------------------------------------------------------------------
(* asm/label.py, asm/old/function.py, asm/old/type.py: Label objects      *)

\* One shape for Label, Function, FunctionReference and TypeDefinition.
\* shifts counts the relocation shifts of the object; cursor is the size of
\* the code section when a function was defined; importedFrom is the export
\* an import took its reference from.
BlankObject ==
    [kind |-> "label", name |-> "", offset |-> 0, returnType |-> BinType("void"),
     parameterTypes |-> <<>>, parameters |-> <<>>, locals |-> <<>>,
     body |-> <<>>, modifiers |-> {}, numLocals |-> 0, fields |-> <<>>, size |-> 0,
     shifts |-> 0, cursor |-> 0, importedFrom |-> ""]

Label(name, offset) == [BlankObject EXCEPT !.name = name, !.offset = offset]

Parameter(name, type, index) == [name |-> name, type |-> type, index |-> index]

FunctionReference(name, offset, returnType, parameterTypes, numLocals) ==
    [BlankObject EXCEPT !.kind = "ref", !.name = name, !.offset = offset,
                        !.returnType = returnType,
                        !.parameterTypes = parameterTypes,
                        !.numLocals = numLocals]

\* a dict built from pairs: a repeated key keeps its first place and takes
\* the last value
RECURSIVE DictOf(_)
DictOf(items) ==
    IF items = <<>> THEN <<>>
    ELSE LET n == Len(items)
             before == DictOf(SubSeq(items, 1, n - 1))
         IN  IF HasName(before, items[n].name)
             THEN [i \in 1..Len(before) |->
                      IF before[i].name = items[n].name THEN items[n] ELSE before[i]]
             ELSE Append(before, items[n])

\* Function(name, offset, return_type, parameters, {}, (), modifiers)
Function(name, offset, returnType, parameters, modifiers) ==
    [BlankObject EXCEPT !.kind = "func", !.name = name, !.offset = offset,
                        !.returnType = returnType,
                        !.parameterTypes =
                            [i \in 1..Len(parameters) |-> parameters[i].type],
                        !.parameters = parameters,
                        !.modifiers = modifiers,
                        !.cursor = offset]

TypeDefinition(name, offset) ==
    [BlankObject EXCEPT !.kind = "type", !.name = name, !.offset = offset]

FieldDefinition(name, offset, type) == [name |-> name, offset |-> offset, type |-> type]

\* func.num_params, func.num_locals (Function counts its locals dict)
NumParams(o) == Len(o.parameterTypes)
NumLocals(o) == IF o.kind = "func" THEN Len(o.locals) ELSE o.numLocals

\* isinstance(o, FunctionReference)
IsFunctionReference(o) == o.kind \in {"func", "ref"}

\* a dict lookup by name in an insertion-ordered sequence of records
Lookup(seq, name) ==
    IF HasName(seq, name)
    THEN Ok(seq[CHOOSE i \in 1..Len(seq) : seq[i].name = name])
    ELSE Raise("KeyError")

-----------------------------------------------------------------------------
(* asm/old/assembler.py: the sections. The operators read the assembler's *)
(* state; a handler takes and returns the part of it that it changes.     *)

SizedSections == {"types", "data", "code", "imports"}
SectionNameSet == {"config", "types", "data", "code", "imports", "exports"}

Range(seq) == {seq[i] : i \in 1..Len(seq)}

\* LabelManager.get_label(name): the index of the object in aObjects
GetLabel(labels, objects, name) ==
    IF \E i \in 1..Len(labels) : objects[labels[i]].name = name
    THEN Ok(labels[CHOOSE i \in 1..Len(labels) : objects[labels[i]].name = name])
    ELSE Raise("KeyError")

\* TypesSection.get_type(name): the index of the definition in aObjects
TypeObject(name) ==
    CHOOSE k \in Range(aTypes.types) : aObjects[k].name = name

\* Assembler.get_type(name)
GetType(name) ==
    IF name \in TypeNames THEN Ok(BinType(name))
    ELSE IF \E k \in Range(aTypes.types) : aObjects[k].name = name
         THEN Ok(DefType(name))
    ELSE Raise("KeyError")

\* t.size and t.index() of what get_type returns, or of Pointer[definition]
SizeOf(t) ==
    IF t.k = "def" THEN aObjects[TypeObject(t.name)].size
    ELSE IF t.k = "ptrto" THEN NATIVE_SIZE
    ELSE SIZES[t.name]

IndexOf(t) == IF t.k = "bin" THEN TypeIndex(t.name) ELSE TypeIndex("ptr")

IntArgument(i) == InstructionArgument(Token("Literal_Int", IntValue(i)), "None")

\* CodeSection.on_instruction, the body of the loop over zip(inst.types,
\* instruction.arguments): the types and arguments one parameter adds
ExpandArgument(pt0, arg0) ==
    LET name0 == arg0.value.value
        \* `if pt is Local` / `elif pt is Argument`: the index of the slot's
        \* type and the slot's index
        Slot(pt, types, args, slot) ==
            LET OfType(slotType) ==
                    IF IsExc(slotType) THEN slotType
                    ELSE Ok([types |-> types \o <<BinType("int8"), pt>>,
                             args |-> args \o <<IntArgument(IndexOf(slotType.v)),
                                                IntArgument(slot.v.index)>>])
            IN  IF aFunction = 0 THEN Raise("AttributeError")
                ELSE IF IsExc(slot) THEN slot
                ELSE OfType(GetType(TypeName(slot.v.type)))
        Last(pt, arg, types, args) ==
            IF pt = BinType("local") \/ pt = BinType("arg")
            THEN Slot(pt, types, args,
                      IF arg.value.value.isInt THEN Raise("KeyError")
                      ELSE Lookup(IF pt.name = "local"
                                  THEN aObjects[aFunction].locals
                                  ELSE aObjects[aFunction].parameters,
                                  arg.value.value.s))
            ELSE Ok([types |-> types \o <<pt>>, args |-> args \o <<arg>>])
        \* `if pt is Variable`: the index of the value's type comes first
        Indexed(pt, arg) ==
            Last(pt, arg, <<BinType("int8")>>,
                 <<IntArgument(TypeIndex(TypeName(pt)))>>)
        Resolved(arg, resolved) ==
            IF IsExc(resolved) THEN resolved
            ELSE Indexed(IF resolved.v.k = "def" THEN PointerTo(resolved.v.name)
                         ELSE resolved.v,
                         arg)
        Second(pt, arg) ==
            IF pt = BinType("var")
            THEN Resolved(arg, IF arg.type # "None" THEN GetType(arg.type)
                               ELSE BinTypeFromTokenType(arg.value.type))
            ELSE Last(pt, arg, <<>>, <<>>)
        \* `if pt is Type` / `elif pt is TypeSize`
        TypeIndexed(idx) ==
            IF IsExc(idx) THEN idx
            ELSE Second(BinType("int8"),
                        InstructionArgument(Token("Literal_Int", IntValue(idx.v)),
                                            "int8"))
        TypeSized(t) ==
            IF IsExc(t) THEN t
            ELSE Second(BinType("int"),
                        InstructionArgument(
                            Token("Literal_Int", IntValue(SizeOf(t.v))), "int"))
    IN  IF pt0 = "type"
        THEN TypeIndexed(IF name0.isInt THEN Raise("KeyError")
                         ELSE IndexOfName(name0.s))
        ELSE IF pt0 = "sizeof"
        THEN TypeSized(IF name0.isInt THEN Raise("KeyError") ELSE GetType(name0.s))
        ELSE Second(BinType(pt0), arg0)

\* two results in a row: the first exception, or both lists joined
Joined(h, t) ==
    IF IsExc(h) THEN h
    ELSE IF IsExc(t) THEN t
    ELSE Ok([types |-> h.v.types \o t.v.types, args |-> h.v.args \o t.v.args])

RECURSIVE ExpandArguments(_, _)
ExpandArguments(pts, arguments) ==
    IF pts = <<>> \/ arguments = <<>> THEN Ok([types |-> <<>>, args |-> <<>>])
    ELSE Joined(ExpandArgument(Head(pts), Head(arguments)),
                ExpandArguments(Tail(pts), Tail(arguments)))

\* the two bytes (num_params, num_locals) that to_bytes adds to a call
CallExtra == 2

\* InstructionDefinition.get_size(), and what on_instruction adds for a call
InstructionSize(opname, types) ==
    OPCODE_SIZE + SumSeq([i \in 1..Len(types) |-> SizeOf(types[i])])
        + (IF opname = "call" THEN CallExtra ELSE 0)

\* CodeSection.on_instruction: the section after the call, or the exception
CodeOnInstruction(code, node) ==
    LET Built(inst, e) ==
            IF IsExc(e) THEN [exc |-> e.exc, code |-> code]
            ELSE [exc |-> "",
                  code |-> [instructions |->
                               Append(code.instructions,
                                      [opname |-> inst.name, opcode |-> inst.code,
                                       types |-> e.v.types, arguments |-> e.v.args,
                                       offset |-> code.size, inserted |-> FALSE]),
                            size |-> code.size
                                     + InstructionSize(node.opname, e.v.types)]]
        Known(inst) ==
            IF Len(node.arguments) # Len(inst.types)
            THEN [exc |-> "ValueError", code |-> code]
            ELSE Built(inst, ExpandArguments(inst.types, node.arguments))
    IN  IF node.opname \notin DOMAIN INSTRUCTIONS
        THEN [exc |-> "UnknownInstructionError", code |-> code]
        ELSE Known(INSTRUCTIONS[node.opname])

\* DataSection.on_instruction: the loop over the arguments of db
RECURSIVE DataExtend(_, _)
DataExtend(data, arguments) ==
    IF arguments = <<>> THEN [exc |-> "", data |-> data]
    ELSE LET arg == Head(arguments)
             typ == IF arg.type = "None" THEN BinTypeFromTokenType(arg.value.type)
                    ELSE IF arg.type \in TypeNames THEN Ok(BinType(arg.type))
                    ELSE Raise("KeyError")
             v == TypeParse(typ.v, arg.value.value)
             bs == TypeToBytes(typ.v, v.v)
         IN  IF IsExc(typ) THEN [exc |-> typ.exc, data |-> data]
             ELSE IF IsExc(v) THEN [exc |-> v.exc, data |-> data]
             ELSE IF IsExc(bs) THEN [exc |-> bs.exc, data |-> data]
             ELSE DataExtend(data \o bs.v, Tail(arguments))

DataOnInstruction(data, node) ==
    IF node.opname # "db" THEN [exc |-> "ValueError", data |-> data]
    ELSE DataExtend(data, node.arguments)

\* Assembler.__init__: ConfigSection(Option("entry", Pointer))
ConfigOptions == [entry |-> <<BinType("ptr")>>]

\* ConfigSection.on_instruction: get_option creates the option with its
\* default values, then the argument count is checked
ConfigOnInstruction(config, node) ==
    IF node.opname \notin DOMAIN ConfigOptions
    THEN [exc |-> "ValueError", config |-> config]
    ELSE LET types == ConfigOptions[node.opname]
             created ==
                 IF HasName(config, node.opname) THEN config
                 ELSE Append(config,
                             [name |-> node.opname, types |-> types,
                              value |-> [i \in 1..Len(types) |-> IntValue(0)]])
             values == [i \in 1..Len(node.arguments) |->
                           node.arguments[i].value.value]
         IN  IF Len(node.arguments) # Len(types)
             THEN [exc |-> "ValueError", config |-> created]
             ELSE [exc |-> "",
                   config |-> [i \in 1..Len(created) |->
                                  IF created[i].name = node.opname
                                  THEN [created[i] EXCEPT !.value = values]
                                  ELSE created[i]]]

\* ConfigSection.to_bytes: a pointer option is the offset of the label it
\* names
RECURSIVE OptionToBytes(_, _, _, _)
OptionToBytes(values, types, labels, objects) ==
    IF values = <<>> \/ types = <<>> THEN Ok(<<>>)
    ELSE LET v == Head(values)
             typ == Head(types)
             lbl == IF v.isInt THEN Raise("KeyError")
                    ELSE GetLabel(labels, objects, v.s)
             parsed == IF IsPointer(typ)
                       THEN (IF IsExc(lbl) THEN lbl ELSE Ok(objects[lbl.v].offset))
                       ELSE TypeParse(typ, v)
             bs == TypeToBytes(typ, parsed.v)
             rest == OptionToBytes(Tail(values), Tail(types), labels, objects)
         IN  IF IsExc(parsed) THEN parsed
             ELSE IF IsExc(bs) THEN bs
             ELSE IF IsExc(rest) THEN rest
             ELSE Ok(bs.v \o rest.v)

RECURSIVE ConfigToBytes(_, _, _)
ConfigToBytes(config, labels, objects) ==
    IF config = <<>> THEN Ok(<<>>)
    ELSE LET h == OptionToBytes(Head(config).value, Head(config).types,
                                labels, objects)
             t == ConfigToBytes(Tail(config), labels, objects)
         IN  IF IsExc(h) THEN h ELSE IF IsExc(t) THEN t ELSE Ok(h.v \o t.v)

\* TypesSection.on_instruction ("field") with TypeDefinition.add_field: the
\* objects and the section after the call, or the exception
TypesOnInstruction(objects, types, node) ==
    LET unchanged == [objects |-> objects, types |-> types]
        info == node.arguments[1]
        t == GetType(info.type)
        cur == types.current
        fname == info.value.value.s
        inc == SizeOf(t.v)
        grown == [objects[cur] EXCEPT
                     !.fields = Append(@, FieldDefinition(fname, objects[cur].size, t.v)),
                     !.size = @ + inc]
        \* field.type.size is read after add_field: a field of the type
        \* being defined already counts itself
        added == IF t.v = DefType(objects[cur].name) THEN grown.size ELSE inc
    IN  IF node.opname # "field"
        THEN [exc |-> "UnknownInstructionError"] @@ unchanged
        ELSE IF node.arguments = <<>> THEN [exc |-> "ValueError"] @@ unchanged
        ELSE IF IsExc(t) THEN [exc |-> t.exc] @@ unchanged
        ELSE IF cur = 0 THEN [exc |-> "ValueError"] @@ unchanged
        ELSE IF HasName(objects[cur].fields, fname)
             THEN [exc |-> "ValueError"] @@ unchanged
        ELSE [exc |-> "",
              objects |-> [objects EXCEPT ![cur] = grown],
              types |-> [types EXCEPT !.size = @ + added]]

-----------------------------------------------------------------------------
(* qpl/file.py: reading a file back (read_file, QPLFile.from_binary_io)   *)

\* SectionTableEntry.from_bytes
EntryFromBytes(data) ==
    IF Len(data) < EntrySize THEN Raise("FileFormatError")
    ELSE IF \E i \in 1..MAX_SECTION_NAME_LENGTH : data[i] >= 128
         THEN Raise("UnicodeDecodeError")
    ELSE SectionTableEntryNew(StripNulls(SubSeq(data, 1, MAX_SECTION_NAME_LENGTH)),
                              FromSigned32(SubSeq(data, 9, 12)),
                              FromSigned32(SubSeq(data, 13, 16)))

\* the loop of from_binary_io: seek to each entry's offset, read its size,
\* add the section
RECURSIVE ReadSections(_, _, _, _)
ReadSections(data, entries, sections, table) ==
    IF entries = <<>> THEN Ok([sections |-> sections, table |-> table])
    ELSE LET e == Head(entries)
             bytes == IF e.size < 0 THEN Read(data, e.offset, Len(data))
                      ELSE Read(data, e.offset, e.size)
             added == QPLAddSection(sections, table, e.name, bytes)
         IN  IF e.offset < 0 THEN Raise("ValueError")
             ELSE IF IsExc(added) THEN added
             ELSE ReadSections(data, Tail(entries), added.v.sections, added.v.table)

QPLFromBytes(data) ==
    LET h == HeaderFromBytes(Read(data, 0, HeaderSize))
        n == IF h.v.numSections < 0 THEN 0 ELSE h.v.numSections
        entries == [i \in 1..n |->
                       EntryFromBytes(Read(data, HeaderSize + EntrySize * (i - 1),
                                           EntrySize))]
        read == ReadSections(data, [i \in 1..n |-> entries[i].v], <<>>, <<>>)
    IN  IF IsExc(h) THEN h
        ELSE IF \E i \in 1..n : IsExc(entries[i])
             THEN entries[CHOOSE i \in 1..n :
                     IsExc(entries[i]) /\ \A j \in 1..(i - 1) : ~IsExc(entries[j])]
        ELSE IF IsExc(read) THEN read
        ELSE Ok([header |-> h.v, sections |-> read.v.sections,
                 table |-> CalculateSectionOffsets(read.v.sections, read.v.table)])

-----------------------------------------------------------------------------
(* The file system the assembler loads from: one library, "lib", with two *)
(* exported functions.                                                    *)

LibraryExports ==
    <<[name |-> Ascii("f"), offset |-> 2, returnType |-> "int",
       params |-> <<"int">>, numLocals |-> 1],
      [name |-> Ascii("g"), offset |-> 5, returnType |-> "void",
       params |-> <<>>, numLocals |-> 0]>>

LibrarySections ==
    <<[name |-> Ascii("code"), data |-> <<0, 6, 0, 0, 6>>],
      [name |-> Ascii("exports"), data |-> ExportTableToBytes(LibraryExports).v]>>

LibraryBytes ==
    QPLToBytes(LibrarySections,
               [i \in 1..Len(LibrarySections) |->
                   [name |-> LibrarySections[i].name,
                    size |-> Len(LibrarySections[i].data), offset |-> 0]],
               None, 2, 8).ret.v

\* read_file(path)
ReadFile(path) ==
    IF path = "lib" THEN QPLFromBytes(LibraryBytes) ELSE Raise("FileNotFoundError")

-----------------------------------------------------------------------------
(* asm/old/assembler.py: ImportSection and Assembler.add_label            *)

\* The assembler's mutable state as one value: a handler maps it to the
\* state it leaves, with exc set when it raises.
State ==
    [exc |-> "", section |-> aSection, function |-> aFunction,
     objects |-> aObjects, labels |-> aLabels, secLabels |-> aSecLabels,
     config |-> aConfig, code |-> aCode, data |-> aData, types |-> aTypes,
     imports |-> aImports, exports |-> aExports]

Fail(st, e) == [st EXCEPT !.exc = e]

\* Assembler.add_label(label) for the object created last: LabelManager
\* rejects a known name, then the current section lists the label
AddLabel(st) ==
    LET k == Len(st.objects)
    IN  IF st.section \notin SizedSections
        THEN Fail(st, IF st.section = "None" THEN "AttributeError" ELSE "ValueError")
        ELSE IF ~IsExc(GetLabel(st.labels, st.objects, st.objects[k].name))
             THEN Fail(st, "KeyError")
        ELSE [st EXCEPT !.labels = Append(@, k),
                        !.secLabels[st.section] = Append(@, k)]

\* ImportSection.on_instruction
ImportsOnInstruction(st, node) ==
    LET first == node.arguments[1].value.value.s
        importName == IF Len(node.arguments) >= 2
                      THEN node.arguments[2].value.value.s ELSE first
        \* load: the export table of the file and all its section data
        Tabled(file, table) ==
            IF IsExc(table) THEN Fail(st, table.exc)
            ELSE [st EXCEPT !.imports.loaded = TRUE,
                            !.imports.table = table.v,
                            !.imports.data = @ \o SectionData(file.v.sections)]
        Loaded(file) ==
            IF IsExc(file) THEN Fail(st, file.exc)
            ELSE IF ~HasName(file.v.sections, Ascii("exports"))
            THEN Fail(st, "KeyError")
            ELSE Tabled(file, ExportTableFromBytes(
                                  Lookup(file.v.sections, Ascii("exports")).v.data))
        \* import: a reference to the export, under the import's name
        Imported(func) ==
            IF IsExc(func) THEN Fail(st, func.exc)
            ELSE AddLabel([st EXCEPT !.objects = Append(@,
                     [FunctionReference(importName, func.v.offset,
                                        BinType(func.v.returnType),
                                        [i \in 1..Len(func.v.params) |->
                                            BinType(func.v.params[i])],
                                        func.v.numLocals)
                      EXCEPT !.importedFrom = first])])
    IN  IF node.opname = "load"
        THEN IF node.arguments = <<>> THEN Fail(st, "IndexError")
             ELSE Loaded(ReadFile(first))
        ELSE IF node.opname = "import"
        THEN IF ~st.imports.loaded THEN Fail(st, "ValueError")
             ELSE IF node.arguments = <<>> THEN Fail(st, "IndexError")
             ELSE IF first \in st.imports.all THEN Fail(st, "ValueError")
             ELSE Imported(Lookup(st.imports.table, Ascii(first)))
        ELSE st

\* section.on_instruction(node, assembler) of the current section
OnInstruction(st, node) ==
    LET Config(r) == [st EXCEPT !.exc = r.exc, !.config = r.config]
        Types(r) == [st EXCEPT !.exc = r.exc, !.objects = r.objects,
                               !.types = r.types]
        Data(r) == [st EXCEPT !.exc = r.exc, !.data = r.data]
        Code(r) == [st EXCEPT !.exc = r.exc, !.code = r.code]
    IN  CASE st.section = "config" -> Config(ConfigOnInstruction(st.config, node))
          [] st.section = "types" ->
                Types(TypesOnInstruction(st.objects, st.types, node))
          [] st.section = "data" -> Data(DataOnInstruction(st.data, node))
          [] st.section = "code" -> Code(CodeOnInstruction(st.code, node))
          [] st.section = "imports" -> ImportsOnInstruction(st, node)
          [] st.section = "exports" -> Fail(st, "Exception")

-----------------------------------------------------------------------------
(* asm/old/assembler.py: Assembler.assemble, the loop over the nodes      *)

\* the instruction assemble makes up before a `ret` of a void function
PushZero ==
    InstructionNode("push",
        <<InstructionArgument(Token("Literal_Int", StrValue("0")), "None")>>)

InsertsPushNever(st, node) == FALSE
\* node.opname == "ret" and the current function's return type is Void
InsertsPush(st, node) ==
    node.opname = "ret" /\ st.objects[st.function].returnType = BinType("void")

\* self._current_function.body.append(res), res being what on_instruction
\* appended last
AppendToBody(st) ==
    IF st.function = 0 THEN Fail(st, "AttributeError")
    ELSE [st EXCEPT !.objects[st.function].body =
                        Append(@, Len(st.code.instructions))]

MarkInserted(st) ==
    [st EXCEPT !.code.instructions[Len(st.code.instructions)].inserted = TRUE]

\* the InstructionNode branch
AssembleInstruction(st, node) ==
    LET \* res = on_instruction(...); body.append(res) in the code section
        Recorded(handled, inserted) ==
            IF handled.exc # "" \/ st.section # "code" THEN handled
            ELSE AppendToBody(IF inserted THEN MarkInserted(handled) ELSE handled)
        Handled(before, nd, inserted) ==
            IF before.exc # "" THEN before
            ELSE Recorded(OnInstruction(before, nd), inserted)
    IN  IF st.section = "None" THEN st
        ELSE IF node.opname = "ret" /\ st.function = 0
             THEN Fail(st, "AttributeError")
        ELSE Handled(IF InsertsPush(st, node) THEN Handled(st, PushZero, TRUE)
                     ELSE st,
                     node, FALSE)

\* str(n) for the number of locals of a function
StrOfInt(n) ==
    CASE n = 0 -> "0" [] n = 1 -> "1" [] n = 2 -> "2" [] n = 3 -> "3" [] n = 4 -> "4"

\* dict[name] = value: a known key keeps its place
DictSet(seq, item) ==
    IF HasName(seq, item.name)
    THEN [i \in 1..Len(seq) |-> IF seq[i].name = item.name THEN item ELSE seq[i]]
    ELSE Append(seq, item)

\* the VariableDefinitionNode branch
AssembleVariable(st, node) ==
    LET fn == st.objects[st.function]
        name == IF node.name # "" THEN node.name ELSE StrOfInt(Len(fn.locals))
        defined == GetType(node.type)
        type == IF node.type \in TypeNames THEN Ok(BinType(node.type))
                ELSE IF IsExc(defined) THEN defined
                ELSE Ok(PointerTo(node.type))
    IN  IF node.name = "" /\ st.function = 0 THEN Fail(st, "AttributeError")
        ELSE IF IsExc(type) THEN Fail(st, type.exc)
        ELSE IF st.function = 0 THEN Fail(st, "AttributeError")
        ELSE [st EXCEPT !.objects[st.function].locals =
                            DictSet(@, Parameter(name, type.v, Len(fn.locals)))]

\* ExportSection.add_export(func): ExportTable.add_export
AddExport(st, k) ==
    IF \E i \in 1..Len(st.exports) :
           st.objects[st.exports[i]].name = st.objects[k].name
    THEN Fail(st, "KeyError")
    ELSE [st EXCEPT !.exports = Append(@, k)]

\* the FunctionDefinitionNode branch
AssembleFunction(st, node) ==
    LET ret == GetType(node.returnType)
        n == Len(node.parameters)
        types == [i \in 1..n |-> GetType(node.parameters[i].type)]
        parameters == DictOf([i \in 1..n |->
                         Parameter(node.parameters[i].name, types[i].v, i - 1)])
        function == Function(node.name, st.code.size, ret.v, parameters,
                             node.modifiers)
        k == Len(st.objects) + 1
        current == [st EXCEPT !.objects = Append(@, function), !.function = k]
        exported == IF "export" \in node.modifiers THEN AddExport(current, k)
                    ELSE current
    IN  IF IsExc(ret) THEN Fail(st, ret.exc)
        ELSE IF \E i \in 1..n : IsExc(types[i]) THEN Fail(st, "KeyError")
        ELSE IF exported.exc # "" THEN exported
        ELSE AddLabel(exported)

\* the TypeDefinitionNode branch: TypesSection.add_type
AssembleType(st, node) ==
    LET k == Len(st.objects) + 1
    IN  IF \E i \in 1..Len(st.types.types) :
               st.objects[st.types.types[i]].name = node.name
        THEN Fail(st, "ValueError")
        ELSE [st EXCEPT !.objects = Append(@, TypeDefinition(node.name, st.types.size)),
                        !.types.types = Append(@, k),
                        !.types.current = k,
                        !.secLabels.types = Append(@, k)]

\* section.size of a sized section
SectionSize(st, section) ==
    CASE section = "types" -> st.types.size
      [] section = "data" -> Len(st.data)
      [] section = "code" -> st.code.size
      [] section = "imports" -> Len(st.imports.data)

\* the LabelNode branch: Assembler.create_label
AssembleLabel(st, node) ==
    IF st.section \notin SizedSections THEN st
    ELSE AddLabel([st EXCEPT !.objects =
                      Append(@, Label(node.name, SectionSize(st, st.section)))])

\* the SectionNode branch
AssembleSection(st, node) ==
    IF node.name = "$null" THEN [st EXCEPT !.section = "None"]
    ELSE IF node.name \in SectionNameSet THEN [st EXCEPT !.section = node.name]
    ELSE Fail(st, "KeyError")

-----------------------------------------------------------------------------
(* asm/old/assembler.py: relocation and CodeSection.to_bytes              *)

SectionsByUse == <<"code", "data", "types", "config", "imports", "exports">>
\* Assembler._sections_ordered
SectionsOrdered == <<"config", "types", "data", "code", "imports", "exports">>

\* ExportTableEntry.to_bytes reads a Function: name, offset, the indices of
\* its return and parameter types, and its number of locals
ExportEntry(o) ==
    [name |-> Ascii(o.name), offset |-> o.offset,
     returnType |-> TYPES[IndexOf(o.returnType)],
     params |-> [i \in 1..Len(o.parameterTypes) |->
                    TYPES[IndexOf(o.parameterTypes[i])]],
     numLocals |-> NumLocals(o)]

\* ExportSection.to_bytes
ExportsToBytes(objects, exports) ==
    ExportTableToBytes([i \in 1..Len(exports) |-> ExportEntry(objects[exports[i]])])

\* len(section.to_bytes(self)) of a section without a size
RelocationLength(st, section) ==
    LET Length(b) == IF IsExc(b) THEN b ELSE Ok(Len(b.v))
    IN  IF section = "config"
        THEN Length(ConfigToBytes(st.config, st.labels, st.objects))
        ELSE Length(ExportsToBytes(st.objects, st.exports))

Occurrences(seq, k) == Cardinality({i \in 1..Len(seq) : seq[i] = k})

RecalculateLabelsOnly(st, section, offset) ==
    [st EXCEPT !.objects =
        [k \in 1..Len(st.objects) |->
            IF k \in Range(st.secLabels[section])
            THEN [st.objects[k] EXCEPT !.offset = @ + offset, !.shifts = @ + 1]
            ELSE st.objects[k]]]
\* SizedSection.recalculate_labels(offset), and CodeSection's, which also
\* moves the instructions
RecalculateLabels(st, section, offset) ==
    LET n(k) == Occurrences(st.secLabels[section], k)
        moved == [st EXCEPT !.objects =
                     [k \in 1..Len(st.objects) |->
                         [st.objects[k] EXCEPT !.offset = @ + n(k) * offset,
                                               !.shifts = @ + n(k)]]]
    IN  IF section # "code" THEN moved
        ELSE [moved EXCEPT !.code.instructions =
                 [i \in 1..Len(st.code.instructions) |->
                     [st.code.instructions[i] EXCEPT !.offset = @ + offset]]]

\* the relocation loop from the i-th section on, `offset` being its base
RECURSIVE Relocate(_, _, _)
Relocate(st, i, offset) ==
    LET Sized(section, length) ==
            Relocate(RecalculateLabels(st, section, offset), i + 1, offset + length)
        Serialized(length) ==
            IF IsExc(length) THEN Fail(st, length.exc)
            ELSE Relocate(st, i + 1, offset + length.v)
        Section(section) ==
            IF section \in SizedSections
            THEN Sized(section, SectionSize(st, section))
            ELSE Serialized(RelocationLength(st, section))
    IN  IF i > Len(SectionsOrdered) THEN st ELSE Section(SectionsOrdered[i])

\* CodeSection.to_bytes, the body of the loop over zip(inst.types,
\* instruction.arguments): the types and values one argument adds. A name
\* is looked up in the locals and the parameters of the current function
\* first, then as a field or a label, then read as a number.
EmitArgument(pt, arg, offset) ==
    LET name == arg.value.value
        fn == aObjects[aFunction]
        local == IF name.isInt THEN Raise("KeyError") ELSE Lookup(fn.locals, name.s)
        param == IF name.isInt THEN Raise("KeyError")
                 ELSE Lookup(fn.parameters, name.s)
        paramIndex == IndexOfName(TypeName(param.v.type))
        field == IF name.isInt THEN Raise("KeyError")
                 ELSE Lookup(aObjects[TypeObject(pt.name)].fields, name.s)
        label == IF name.isInt THEN Raise("KeyError")
                 ELSE GetLabel(aLabels, aObjects, name.s)
        found == IF pt.k = "ptrto"
                 THEN (IF IsExc(field) THEN field ELSE Ok(field.v.offset))
                 ELSE (IF IsExc(label) THEN label ELSE Ok(aObjects[label.v].offset))
        value == IF IsExc(found) THEN IntOf(name) ELSE found
        type == IF pt.k = "ptrto" /\ ~IsExc(field) THEN BinType("int") ELSE pt
        parsed == TypeParse(pt, name)
    IN  IF IsPointer(pt) \/ pt = BinType("local") \/ pt = BinType("arg")
        THEN IF aFunction = 0 THEN Raise("AttributeError")
             ELSE IF ~IsExc(local)
             THEN Ok([types |-> <<BinType("int8"), BinType("local")>>,
                      args |-> <<TypeIndex(TypeName(local.v.type)), local.v.index>>])
             ELSE IF ~IsExc(param) /\ ~IsExc(paramIndex)
             THEN Ok([types |-> <<BinType("int8"), BinType("InstructionArgument")>>,
                      args |-> <<paramIndex.v, param.v.index>>])
             ELSE IF IsExc(value) THEN value
             ELSE Ok([types |-> <<type>>,
                      args |-> <<IF type = BinType("rptr") THEN value.v - offset
                                 ELSE value.v>>])
        ELSE IF IsExc(parsed) THEN parsed
        ELSE Ok([types |-> <<pt>>, args |-> <<parsed.v>>])

RECURSIVE EmitArguments(_, _, _)
EmitArguments(types, arguments, offset) ==
    IF types = <<>> \/ arguments = <<>> THEN Ok([types |-> <<>>, args |-> <<>>])
    ELSE Joined(EmitArgument(Head(types), Head(arguments), offset),
                EmitArguments(Tail(types), Tail(arguments), offset))

\* InstructionDefinition.to_bytes(types, *args): the opcode, then each value
RECURSIVE ValuesToBytes(_, _)
ValuesToBytes(types, args) ==
    LET Both(h, t) == IF IsExc(h) THEN h ELSE IF IsExc(t) THEN t ELSE Ok(h.v \o t.v)
    IN  IF types = <<>> THEN Ok(<<>>)
        ELSE Both(TypeToBytes(Head(types), Head(args)),
                  ValuesToBytes(Tail(types), Tail(args)))

\* one round of the loop of CodeSection.to_bytes
InstructionToBytes(instruction) ==
    LET isCall == instruction.opname = "call"
        callee == instruction.arguments[1].value.value
        Packed(values) ==
            IF IsExc(values) THEN values
            ELSE Ok(SignedLE(instruction.opcode, OPCODE_SIZE) \o values.v)
        Called(e, func) ==
            IF IsExc(func) THEN func
            ELSE IF ~IsFunctionReference(aObjects[func.v]) THEN Raise("TypeError")
            ELSE Packed(ValuesToBytes(
                     e.v.types \o <<BinType("int8"), BinType("int8")>>,
                     e.v.args \o <<NumParams(aObjects[func.v]),
                                   NumLocals(aObjects[func.v])>>))
        Emitted(e) ==
            IF IsExc(e) THEN e
            ELSE IF isCall
            THEN Called(e, IF callee.isInt THEN Raise("KeyError")
                           ELSE GetLabel(aLabels, aObjects, callee.s))
            ELSE Packed(ValuesToBytes(e.v.types, e.v.args))
    IN  Emitted(EmitArguments(instruction.types, instruction.arguments,
                              instruction.offset))

\* CodeSection.to_bytes: the bytes of each instruction, in order
CodeToBytes ==
    LET First(each) ==
            IF \E i \in 1..Len(each) : IsExc(each[i])
            THEN each[CHOOSE i \in 1..Len(each) :
                     IsExc(each[i]) /\ \A j \in 1..(i - 1) : ~IsExc(each[j])]
            ELSE Ok([i \in 1..Len(each) |-> each[i].v])
    IN  First([i \in 1..Len(aCode.instructions) |->
                  InstructionToBytes(aCode.instructions[i])])

\* TypesSection.to_bytes: b"\xCA" * size
TypesToBytes == [i \in 1..aTypes.size |-> 202]

\* section.to_bytes(assembler)
SectionToBytes(section) ==
    LET Bytes(code) == IF IsExc(code) THEN code ELSE Ok(Concat(code.v))
    IN  CASE section = "config" -> ConfigToBytes(aConfig, aLabels, aObjects)
          [] section = "types" -> Ok(TypesToBytes)
          [] section = "data" -> Ok(aData)
          [] section = "code" -> Bytes(CodeToBytes)
          [] section = "imports" -> Ok(aImports.data)
          [] section = "exports" -> ExportsToBytes(aObjects, aExports)

\* the emission loop: file.add_section(section.name, section.to_bytes(self))
RECURSIVE AddSections(_, _, _)
AddSections(i, sections, table) ==
    LET Added(added) ==
            IF IsExc(added) THEN added
            ELSE AddSections(i + 1, added.v.sections, added.v.table)
        Serialized(bytes) ==
            IF IsExc(bytes) THEN bytes
            ELSE Added(QPLAddSection(sections, table, Ascii(SectionsOrdered[i]),
                                     bytes.v))
    IN  IF i > Len(SectionsOrdered)
        THEN Ok([sections |-> sections, table |-> table])
        ELSE Serialized(SectionToBytes(SectionsOrdered[i]))

-----------------------------------------------------------------------------
(* Assembler.assemble(nodes) step by step: one node of the loop at a      *)
(* time, then the relocation loop, then the emission loop; the caller     *)
(* then writes the file (QPLFile.to_bytes).                               *)

\* Assembler.__init__
NewAssembler ==
    /\ aNext = 0 /\ aPc = "ast" /\ aExc = ""
    /\ aSection = "None" /\ aFunction = 0
    /\ aObjects = <<>> /\ aLabels = <<>>
    /\ aSecLabels = [types |-> <<>>, data |-> <<>>, code |-> <<>>, imports |-> <<>>]
    /\ aConfig = <<>>
    /\ aCode = [instructions |-> <<>>, size |-> 0]
    /\ aData = <<>>
    /\ aTypes = [types |-> <<>>, current |-> 0, size |-> 0]
    /\ aImports = [data |-> <<>>, loaded |-> FALSE, table |-> <<>>, all |-> {}]
    /\ aExports = <<>>
    /\ aCodeBytes = <<>>

\* the node the loop handles next
Node == aSource[aNext + 1]

Fetches(kind) == aPc = "ast" /\ aNext < Len(aSource) /\ Node.node = kind

\* the assembler takes the state st; an exception ends assemble
Settles(st, pc) ==
    /\ aPc' = IF st.exc = "" THEN pc ELSE "raised"
    /\ aExc' = st.exc
    /\ aSection' = st.section
    /\ aFunction' = st.function
    /\ aObjects' = st.objects
    /\ aLabels' = st.labels
    /\ aSecLabels' = st.secLabels
    /\ aConfig' = st.config
    /\ aCode' = st.code
    /\ aData' = st.data
    /\ aTypes' = st.types
    /\ aImports' = st.imports
    /\ aExports' = st.exports

Becomes(st) ==
    /\ Settles(st, "ast")
    /\ aNext' = aNext + 1
    /\ UNCHANGED <<aSource, aCodeBytes, headerVars, fileVars, exportVars, instrVars, parsingVars>>

ASection ==
    Fetches("section") /\ \E st \in {AssembleSection(State, Node)} : Becomes(st)

AInstruction ==
    Fetches("instruction")
    /\ \E st \in {AssembleInstruction(State, Node)} : Becomes(st)

AVariable ==
    Fetches("var") /\ \E st \in {AssembleVariable(State, Node)} : Becomes(st)

AFunction ==
    Fetches("func") /\ \E st \in {AssembleFunction(State, Node)} : Becomes(st)

AType == Fetches("type") /\ \E st \in {AssembleType(State, Node)} : Becomes(st)

ALabel == Fetches("label") /\ \E st \in {AssembleLabel(State, Node)} : Becomes(st)

\* the relocation loop
ARelocate ==
    /\ aPc = "ast" /\ aNext = Len(aSource)
    /\ \E st \in {Relocate(State, 1, 0)} : Settles(st, "relocated")
    /\ UNCHANGED <<aSource, aNext, aCodeBytes, headerVars, fileVars, exportVars, instrVars, parsingVars>>

\* the emission loop and the return of the file
AEmit ==
    /\ aPc = "relocated"
    /\ \E r \in {AddSections(1, <<>>, <<>>)} :
        /\ aPc' = IF IsExc(r) THEN "raised" ELSE "returned"
        /\ aExc' = r.exc
        /\ fSections' = IF IsExc(r) THEN fSections ELSE r.v.sections
        /\ fTable' = IF IsExc(r) THEN fTable ELSE r.v.table
        /\ aCodeBytes' = IF IsExc(r) THEN aCodeBytes ELSE CodeToBytes.v
    /\ UNCHANGED <<aSource, aNext, aSection, aFunction, aObjects, aLabels,
                   aSecLabels, aConfig, aCode, aData, aTypes, aImports, aExports,
                   fHeader, fRet, entryVars, headerVars, exportVars,
                   instrVars, parsingVars>>

WriteFlags == {0, 1}

\* QPLFile.to_bytes(flags, arch) on the returned file, arch being the
\* native word size
AWrite ==
    /\ aPc = "returned"
    /\ \E flags \in WriteFlags :
        \E r \in {QPLToBytes(fSections, fTable, fHeader, flags, NATIVE_SIZE)} :
            /\ fHeader' = r.header
            /\ fTable' = r.table
            /\ fRet' = [op |-> "to_bytes", exc |-> r.ret.exc,
                        v |-> IF IsExc(r.ret) THEN <<>> ELSE r.ret.v,
                        flags |-> flags]
    /\ aPc' = "written"
    /\ UNCHANGED <<aSource, aNext, aExc, aSection, aFunction, aObjects, aLabels,
                   aSecLabels, aConfig, aCode, aData, aTypes, aImports, aExports,
                   aCodeBytes, fSections, entryVars, headerVars, exportVars,
                   instrVars, parsingVars>>

\* qasm.assemble_file: the parsed nodes and the flags are both handed to
\* Assembler.assemble, which takes the nodes alone
AssembleFile ==
    /\ aPc = "ast" /\ aNext = 0
    /\ aPc' = "raised"
    /\ aExc' = "TypeError"
    /\ UNCHANGED <<aSource, aNext, aSection, aFunction, aObjects, aLabels,
                   aSecLabels, aConfig, aCode, aData, aTypes, aImports, aExports,
                   aCodeBytes, headerVars, fileVars, exportVars, instrVars, parsingVars>>

NextAsm ==
    \/ ASection \/ AInstruction \/ AVariable \/ AFunction \/ AType \/ ALabel
    \/ ARelocate \/ AEmit \/ AWrite \/ AssembleFile

-----------------------------------------------------------------------------
(* The sources the assembler is run on: a preamble of the sections other  *)
(* than code (any of them absent, some with a repeated definition), and   *)
(* the code, in either order; and every short code section on its own.    *)

MaxCodeNodes == 3

Field(name, type) == InstructionNode("field", <<Typed(type, Identifier(name))>>)

Jmp(name) == InstructionNode("jmp", <<Identifier(name)>>)

Call(name) == InstructionNode("call", <<Identifier(name)>>)

Import(names) ==
    InstructionNode("import", [i \in 1..Len(names) |-> Identifier(names[i])])

Ret == InstructionNode("ret", <<>>)

Nop == InstructionNode("nop", <<>>)

\* `add int, int`
AddInt == InstructionNode("add", <<Identifier("int"), Identifier("int")>>)

FuncMain == FunctionDefinitionNode("main", "void", <<>>, {"export"})

TypesFragments ==
    {<<>>,
     <<SectionNode("types"), TypeDefinitionNode("T"), Field("x", "int")>>,
     <<SectionNode("types"), TypeDefinitionNode("T"), Field("x", "int"),
       Field("x", "int8")>>,
     <<SectionNode("types"), TypeDefinitionNode("T"), Field("y", "int8"),
       TypeDefinitionNode("T")>>,
     <<SectionNode("types"), TypeDefinitionNode("P"), Field("x", "int"),
       Field("y", "int8"), TypeDefinitionNode("Q"), Field("a", "int8"),
       Field("p", "P"), Field("b", "int")>>,
     <<SectionNode("types"), TypeDefinitionNode("T"), Field("x", "int"),
       Field("y", "T"), Field("z", "int8")>>}

DataFragments ==
    {<<>>,
     <<SectionNode("data"), InstructionNode("db", <<Literal("1")>>)>>,
     <<SectionNode("data"), InstructionNode("db", <<Typed("int8", Literal("2"))>>),
       LabelNode("y")>>}

ConfigFragments ==
    {<<>>,
     <<SectionNode("config"), InstructionNode("entry", <<Identifier("main")>>)>>}

ImportFragments ==
    {<<>>,
     <<SectionNode("imports"), InstructionNode("load", <<Identifier("lib")>>),
       Import(<<"f">>), Import(<<"g">>)>>,
     <<SectionNode("imports"), InstructionNode("load", <<Identifier("lib")>>),
       Import(<<"f">>), Import(<<"f", "g">>)>>,
     <<SectionNode("imports"), InstructionNode("load", <<Identifier("lib")>>),
       Import(<<"g">>), Import(<<"g">>)>>,
     <<SectionNode("imports"), InstructionNode("load", <<Identifier("lib")>>),
       Import(<<"f">>), InstructionNode("load", <<Identifier("lib")>>),
       Import(<<"g">>)>>}

Preambles ==
    {t \o d \o c \o i : t \in TypesFragments, d \in DataFragments,
                        c \in ConfigFragments, i \in ImportFragments}

Bodies ==
    {<<>>,
     <<SectionNode("code"), FuncMain, LabelNode("L"), Nop, Jmp("L"), Ret,
       FunctionDefinitionNode("a", "int", <<ParameterNode("x", "int")>>, {}),
       Call("main"), Jmp("L"), InstructionNode("push", <<Literal("5")>>), Ret>>,
     <<SectionNode("code"), FuncMain, Jmp("L"), Call("a"), Call("g"),
       LabelNode("L"), Ret,
       FunctionDefinitionNode("a", "void", <<>>, {"export"}),
       VariableDefinitionNode("int", "x"), Ret>>,
     <<SectionNode("code"),
       FunctionDefinitionNode("b", "int", <<ParameterNode("L", "int")>>, {}),
       LabelNode("L"), Jmp("L"), Ret>>,
     <<SectionNode("code"), FuncMain, VariableDefinitionNode("int", "L"),
       LabelNode("L"), Jmp("L"), Nop, Ret>>,
     <<SectionNode("code"), FuncMain, LabelNode("L"), Nop, LabelNode("L")>>,
     <<SectionNode("code"), FuncMain, Ret, FuncMain>>,
     <<SectionNode("code"), FuncMain, InstructionNode("push", <<Literal("5")>>),
       AddInt, Ret>>,
     <<SectionNode("code"), FuncMain, LabelNode("L"), Call("L"), Ret>>,
     <<SectionNode("code"), FuncMain, Call("a"), Ret,
       FunctionDefinitionNode("a", "void", <<>>, {}),
       VariableDefinitionNode("int", "a"), Ret>>,
     <<SectionNode("code"),
       FunctionDefinitionNode("b", "void", <<ParameterNode("x", "int"),
                                             ParameterNode("x", "int8")>>, {}),
       VariableDefinitionNode("int", "v"), VariableDefinitionNode("int8", "w"),
       VariableDefinitionNode("int", "v"), VariableDefinitionNode("int", "u"),
       Ret>>}

CodeNodes ==
    {FuncMain,
     FunctionDefinitionNode("a", "int", <<ParameterNode("L", "int")>>, {}),
     LabelNode("L"), VariableDefinitionNode("int", "L"),
     VariableDefinitionNode("int8", "x"),
     Jmp("L"), Call("main"), Ret, Nop,
     InstructionNode("push", <<Literal("5")>>)}

Sources ==
    {p \o b : p \in Preambles, b \in Bodies}
    \cup {b \o p : p \in Preambles, b \in Bodies}
    \cup {<<SectionNode("code")>> \o s : s \in SeqsUpTo(CodeNodes, MaxCodeNodes)}

InitAsm ==
    /\ aSource \in Sources
    /\ NewAssembler
    /\ IdleHeader /\ IdleFile /\ IdleExport /\ IdleInstr /\ IdleParsing

SpecAsm == InitAsm /\ [][NextAsm]_vars

-----------------------------------------------------------------------------
(* Properties of Assembler.assemble and of the file it returns.           *)

Relocated == aPc \in {"relocated", "returned", "written"}

Emitted == aPc \in {"returned", "written"}

Written == aPc = "written" /\ fRet.exc = ""

\* the instructions that take one rptr argument
RelativeOps ==
    {op \in DOMAIN INSTRUCTIONS : INSTRUCTIONS[op].types = <<"rptr">>}

\* the i-th instruction of the code section names a label
NamesLabel(i) ==
    LET name == aCode.instructions[i].arguments[1].value.value
    IN  /\ aCode.instructions[i].opname \in RelativeOps
        /\ ~name.isInt
        /\ ~IsExc(GetLabel(aLabels, aObjects, name.s))

LabelNamed(i) ==
    aObjects[GetLabel(aLabels, aObjects,
                      aCode.instructions[i].arguments[1].value.value.s).v]

\* C1: in the emitted code the operand of every instruction with an rptr
\* argument that names a label L is L.offset - i.offset (both relocated) as
\* a signed native word, whatever the locals and parameters are called.
C1_RelativeOperands ==
    Emitted =>
        \A i \in 1..Len(aCode.instructions) :
            NamesLabel(i) =>
                /\ Len(aCodeBytes[i]) >= OPCODE_SIZE + NATIVE_SIZE
                /\ SubSeq(aCodeBytes[i], OPCODE_SIZE + 1, OPCODE_SIZE + NATIVE_SIZE)
                       = SignedLE(LabelNamed(i).offset - aCode.instructions[i].offset,
                                  NATIVE_SIZE)

\* where the code section starts: the serialized config, the types and the
\* data come before it
CodeBase ==
    Len(ConfigToBytes(aConfig, aLabels, aObjects).v) + aTypes.size + Len(aData)

\* the code cursor when the i-th instruction was appended
Position(i) ==
    SumSeq([j \in 1..(i - 1) |->
               InstructionSize(aCode.instructions[j].opname,
                               aCode.instructions[j].types)])

AllLabels ==
    Range(aLabels) \cup UNION {Range(aSecLabels[s]) : s \in SizedSections}

\* C2: after the relocation loop a function defined in the code section is
\* at the base of the code section plus the code cursor of its definition,
\* every instruction is at the base plus its position in the code section,
\* and every label has been shifted exactly once.
C2_Relocation ==
    Relocated =>
        /\ \A k \in Range(aSecLabels.code) :
               aObjects[k].kind = "func"
                   => aObjects[k].offset = CodeBase + aObjects[k].cursor
        /\ \A i \in 1..Len(aCode.instructions) :
               aCode.instructions[i].offset = CodeBase + Position(i)
        /\ \A k \in AllLabels : aObjects[k].shifts = 1

C2_Witness ==
    /\ Relocated
    /\ CodeBase > 0
    /\ \E k \in Range(aSecLabels.code) :
           aObjects[k].kind = "func" /\ aObjects[k].cursor > 0
    /\ Len(aCode.instructions) > 2
    /\ aSecLabels.types # <<>> /\ aSecLabels.data # <<>> /\ aSecLabels.imports # <<>>

\* the function whose body records the i-th instruction of the code section
OwnerOf(i) ==
    aObjects[CHOOSE k \in 1..Len(aObjects) :
                 aObjects[k].kind = "func" /\ i \in Range(aObjects[k].body)]

FollowsInBody(body, i) ==
    \E j \in 2..Len(body) : body[j] = i /\ body[j - 1] = i - 1

PushZeroBytes ==
    <<INSTRUCTIONS.push.code, TypeIndex("int")>> \o SignedLE(0, NATIVE_SIZE)

IsRet(i) == aCode.instructions[i].opname = "ret"

\* C3: a `ret` of a function returning void comes right after a `push 0`
\* that the assembler inserted, in the code section, in the function's body
\* and in the emitted bytes; before a `ret` of any other function nothing is
\* inserted, and nothing is inserted anywhere else.
C3_VoidReturn ==
    aPc # "raised" =>
        \A i \in 1..Len(aCode.instructions) :
            /\ IsRet(i) /\ OwnerOf(i).returnType = BinType("void") =>
                /\ i > 1
                /\ aCode.instructions[i - 1].inserted
                /\ aCode.instructions[i - 1].opname = "push"
                /\ FollowsInBody(OwnerOf(i).body, i)
                /\ Emitted => /\ aCodeBytes[i - 1] = PushZeroBytes
                              /\ aCodeBytes[i] = <<INSTRUCTIONS.ret.code>>
            /\ IsRet(i) /\ OwnerOf(i).returnType # BinType("void") =>
                i = 1 \/ ~aCode.instructions[i - 1].inserted
            /\ aCode.instructions[i].inserted =>
                i < Len(aCode.instructions) /\ IsRet(i + 1)

C3_Witness ==
    /\ Emitted
    /\ \E i \in 1..Len(aCode.instructions) :
           IsRet(i) /\ OwnerOf(i).returnType = BinType("void")
    /\ \E i \in 1..Len(aCode.instructions) :
           IsRet(i) /\ OwnerOf(i).returnType = BinType("int")

EmptyWritten == aSource = <<>> /\ aPc = "written" /\ fRet.flags = 0

EmissionOrder == <<"config", "types", "data", "code", "imports", "exports">>

\* C4 as stated: the empty source with flags 0 gives the 16 bytes of a header
\* that counts no section.
C4_Original ==
    EmptyWritten =>
        /\ Len(fRet.v) = HeaderSize
        /\ SubSeq(fRet.v, 1, 4) = SIGNATURE
        /\ fRet.v[7] = 0

\* C4: the empty source with flags 0 gives 120 bytes: the header with the
\* magic and a section count of 6, the six table entries of config, types,
\* data, code, imports and exports, all of size 0 but the exports, and the 8
\* bytes of an export table without entries.
C4_EmptySource ==
    EmptyWritten =>
        /\ fRet.exc = ""
        /\ Len(fRet.v) = HeaderSize + 6 * EntrySize + NATIVE_SIZE
        /\ SubSeq(fRet.v, 1, 4) = SIGNATURE
        /\ fRet.v[7] = 6
        /\ \A i \in 1..6 :
            LET entry == SubSeq(fRet.v, HeaderSize + EntrySize * (i - 1) + 1,
                                HeaderSize + EntrySize * i)
            IN  /\ SubSeq(entry, 1, 8) = PackS(Ascii(EmissionOrder[i]), 8)
                /\ FromSignedLE(SubSeq(entry, 9, 12))
                       = IF i = 6 THEN NATIVE_SIZE ELSE 0
                /\ FromSignedLE(SubSeq(entry, 13, 16)) = HeaderSize + 6 * EntrySize
        /\ SubSeq(fRet.v, HeaderSize + 6 * EntrySize + 1, Len(fRet.v))
               = SignedLE(0, NATIVE_SIZE)

C4_Witness == EmptyWritten /\ fRet.exc = ""

\* C5: whatever the order of the section directives and the definitions in
\* the source, the returned file lists config, types, data, code, imports,
\* exports in this order, each with the bytes of its section, and the
\* written file holds the section bytes in the same order.
C5_SectionOrder ==
    Emitted =>
        /\ Len(fSections) = 6 /\ Len(fTable) = 6
        /\ \A i \in 1..6 :
            /\ fSections[i].name = Ascii(EmissionOrder[i])
            /\ fTable[i].name = Ascii(EmissionOrder[i])
            /\ fSections[i].data = SectionToBytes(EmissionOrder[i]).v
            /\ Written =>
                LET off == FirstOffset(6) + DataBefore(i)
                IN  /\ SubSeq(fRet.v, HeaderSize + EntrySize * (i - 1) + 1,
                              HeaderSize + EntrySize * (i - 1) + 8)
                           = PackS(Ascii(EmissionOrder[i]), 8)
                    /\ SubSeq(fRet.v, off + 1, off + Len(fSections[i].data))
                           = fSections[i].data

C5_Witness ==
    /\ Written
    /\ \E i, j \in 1..Len(aSource) :
           i < j /\ aSource[i] = SectionNode("code")
                 /\ aSource[j] = SectionNode("types")
    /\ \A i \in {1, 2, 3, 4, 5} : fSections[i].data # <<>>
    /\ \A i, j \in 1..6 : i # j => fSections[i].data # fSections[j].data

\* the node the loop handles next defines a name again: a label or a
\* function whose name the label manager knows, a type the types section
\* knows, a field the current type has, or an import of an exported function
\* that an earlier import took
RepeatsName ==
    /\ aPc = "ast" /\ aNext < Len(aSource)
    /\ CASE Node.node \in {"label", "func"} ->
                /\ aSection \in SizedSections
                /\ ~IsExc(GetLabel(aLabels, aObjects, Node.name))
         [] Node.node = "type" ->
                \E k \in Range(aTypes.types) : aObjects[k].name = Node.name
         [] Node.node = "instruction" ->
                /\ Node.arguments # <<>>
                /\ \/ /\ aSection = "types" /\ Node.opname = "field"
                      /\ aTypes.current # 0
                      /\ HasName(aObjects[aTypes.current].fields,
                                 Node.arguments[1].value.value.s)
                   \/ /\ aSection = "imports" /\ Node.opname = "import"
                      /\ \E k \in Range(aSecLabels.imports) :
                             aObjects[k].importedFrom
                                 = Node.arguments[1].value.value.s
         [] OTHER -> FALSE

TablesKept ==
    /\ aLabels' = aLabels
    /\ aSecLabels' = aSecLabels
    /\ aTypes' = aTypes
    /\ \A k \in AllLabels : aObjects'[k] = aObjects[k]

\* C9: a node that defines a label, function, type or field again, or imports
\* an exported function again, makes the pass over the nodes raise, and the
\* label, type, field and import tables stay as they were.
C9_DuplicatesRejected ==
    [][RepeatsName => (aPc' = "raised" /\ TablesKept)]_vars


-----------------------------------------------------------------------------
(* asm/instructions: the types, the stack and Instruction.build_from.     *)
(* A type is a record tagged with its class; a Stack is a sequence with   *)
(* the top last.                                                          *)

\* Type(name)
Type(name) == [k |-> "Type", name |-> name]

\* Many(typ, limit) of the module `module`: its name is str(self)
ManyOf(module, typ, limit) ==
    [k |-> "Many", module |-> module, type |-> typ, limit |-> limit,
     name |-> typ.name \o "["
              \o (IF limit < 0 THEN "..." ELSE ToString(limit)) \o "]"]

\* the class Many of asm/instructions/type.py, which instruction.py imports
Many(typ, limit) == ManyOf("asm.instructions.type", typ, limit)

\* the class Many of asm/type.py, which stack_machine.py imports
TypeMany(typ, limit) == ManyOf("asm.type", typ, limit)

\* Generic(name)
Generic(name) == [k |-> "Generic", name |-> "GenericName<" \o name \o ">"]

\* isinstance(t, Many) in instruction.py and asm/instructions/type.py, and
\* in stack_machine.py; isinstance(t, Generic)
IsMany(t) == t.k = "Many" /\ t.module = "asm.instructions.type"
IsTypeMany(t) == t.k = "Many" /\ t.module = "asm.type"
IsGeneric(t) == t.k = "Generic"

\* unpack_types: a Many with a limit >= 0 becomes limit copies of its type
RECURSIVE UnpackTypes(_)
UnpackTypes(types) ==
    IF types = <<>> THEN <<>>
    ELSE LET Unpacked(typ) ==
                 IF IsMany(typ) /\ typ.limit >= 0
                 THEN UnpackTypes([i \in 1..typ.limit |-> typ.type])
                 ELSE <<typ>>
         IN  Unpacked(Head(types)) \o UnpackTypes(Tail(types))

\* the names "from ..type import *" binds in stack_machine.py: asm/type.__all__
TypeAll == {"All", "Generic", "Many", "Type"}

\* StackState.__init__: unpack_types is looked up in stack_machine's globals
StackState(types) ==
    IF "unpack_types" \in TypeAll
    THEN Ok([k |-> "StackState", types |-> UnpackTypes(types)])
    ELSE Raise("NameError")

\* StackTransformation(before, after) keeps the two states it is given
StackTransformation(before, after) ==
    [k |-> "StackTransformation", before |-> before, after |-> after]

\* Stack.top(n): tuple(self)[-n:], the whole stack for n = 0
Top(stack, n) ==
    IF n = 0 \/ n >= Len(stack) THEN stack
    ELSE SubSeq(stack, Len(stack) - n + 1, Len(stack))

\* NotEnoughValuesError(expected, got)
NotEnoughValuesError(expected, got) ==
    [exc |-> "NotEnoughValuesError", expected |-> expected, got |-> got]

\* IncompatibleTypesOnStackError(expected, got): the message formats both
\* sides as a StackState of the expected and of the found types
IncompatibleTypesOnStackError(expected, got) ==
    LET Formatted(e, g) ==
            IF IsExc(e) THEN e
            ELSE IF IsExc(g) THEN g
            ELSE [exc |-> "IncompatibleTypesOnStackError",
                  expected |-> expected, got |-> got]
    IN  Formatted(StackState(expected), StackState(got))

\* InvalidInstructionArgumentType(expected, got)
InvalidInstructionArgumentType(expected, got) ==
    [exc |-> "InvalidInstructionArgumentType",
     expected |-> expected, got |-> got]

\* a tuple of types handed to Instruction.__init__
TupleOf(types) == [k |-> "tuple", types |-> types]

\* Instruction.__init__(name, parameters, in_, out)
InstructionInit(name, parameters, in_, out) ==
    LET Stated(x) == IF x.k = "tuple" THEN StackState(x.types) ELSE Ok(x)
        Made(transformation) ==
            Ok([name |-> name, parameters |-> parameters,
                transformation |-> transformation])
        Checked(i, o) ==
            IF IsExc(i) THEN i
            ELSE IF IsExc(o) THEN o
            ELSE IF i.v.k = "StackTransformation" THEN Made(i.v)
            ELSE IF i.v.k = "StackState"
            THEN IF o.v.k = "StackState"
                 THEN Made(StackTransformation(i.v, o.v))
                 ELSE Raise("TypeError")
            ELSE Raise("TypeError")
    IN  Checked(Stated(in_), Stated(out))


\* the default out = None of Instruction.__init__
NoState == [k |-> "None"]

\* build_from, the first loop: a parameter seen for the first time binds its
\* name to the argument; seen again, the argument must carry the bound name
RECURSIVE BindArguments(_, _, _)
BindArguments(arguments, parameters, mapping) ==
    IF arguments = <<>> \/ parameters = <<>> THEN Ok(mapping)
    ELSE LET argument == Head(arguments)
             Rest(m) == BindArguments(Tail(arguments), Tail(parameters), m)
             Bound(key, found) ==
                 IF IsExc(found)
                 THEN Rest(DictSet(mapping, [name |-> key, type |-> argument]))
                 ELSE IF argument.name # found.v.type.name
                 THEN InvalidInstructionArgumentType(found.v.type, argument)
                 ELSE Rest(mapping)
         IN  Bound(Head(parameters).name,
                   Lookup(mapping, Head(parameters).name))

\* build_from, the second loop over zip(stack.top(n), unpacked before): a
\* generic entry takes its binding, or binds to the stack's entry
RECURSIVE BindBefore(_, _, _, _)
BindBefore(top, before, mapping, typesBefore) ==
    IF top = <<>> \/ before = <<>>
    THEN [mapping |-> mapping, types |-> typesBefore]
    ELSE LET Inner(t) == IF IsMany(t) THEN t.type ELSE t
             Wrapped(many, t) == IF IsMany(many) THEN Many(t, many.limit) ELSE t
             Step(m, t) ==
                 BindBefore(Tail(top), Tail(before), m,
                            Append(typesBefore, Wrapped(Head(before), t)))
             Resolved(t, found) ==
                 IF ~IsGeneric(t) THEN Step(mapping, t)
                 ELSE IF IsExc(found)
                 THEN Step(DictSet(mapping, [name |-> t.name, type |-> Head(top)]),
                           Head(top))
                 ELSE Step(mapping, found.v.type)
         IN  Resolved(Inner(Head(before)),
                      Lookup(mapping, Inner(Head(before)).name))

\* build_from, the third loop over zip(reversed(stack), reversed(types_before));
\* j entries below the top have been compared, err is the error a mismatch raises
RECURSIVE CompareFromTop(_, _, _, _)
CompareFromTop(stack, typesBefore, j, err) ==
    IF j >= Len(stack) \/ j >= Len(typesBefore) THEN Ok(None)
    ELSE LET Compared(stackType, typeBefore) ==
                 IF IsMany(typeBefore)
                 THEN IF typeBefore.limit <= 0
                      THEN CompareFromTop(stack, typesBefore, j + 1, err)
                      ELSE Raise("ValueError")
                 ELSE IF typeBefore.name # stackType.name THEN err
                 ELSE CompareFromTop(stack, typesBefore, j + 1, err)
         IN  Compared(stack[Len(stack) - j], typesBefore[Len(typesBefore) - j])

\* build_from, the last loop: a generic after-type is looked up in the mapping
RECURSIVE MapAfter(_, _)
MapAfter(after, mapping) ==
    IF after = <<>> THEN Ok(<<>>)
    ELSE LET Joint(t, rest) == IF IsExc(rest) THEN rest ELSE Ok(<<t>> \o rest.v)
             Mapped(t, found) ==
                 IF ~IsGeneric(t) THEN Joint(t, MapAfter(Tail(after), mapping))
                 ELSE IF IsExc(found) THEN found
                 ELSE Joint(found.v.type, MapAfter(Tail(after), mapping))
         IN  Mapped(Head(after), Lookup(mapping, Head(after).name))

\* Instruction.build_from(stack, *arguments)
BuildFrom(self, stack, arguments) ==
    LET raw == self.transformation.before.types
        Built(b, a) ==
            IF IsExc(b) THEN b
            ELSE IF IsExc(a) THEN a
            ELSE InstructionInit(self.name, self.parameters, b.v, a.v)
        After(typesBefore, a) ==
            IF IsExc(a) THEN a
            ELSE Built(StackState(typesBefore), StackState(a.v))
        Compared(bound, c) ==
            IF IsExc(c) THEN c
            ELSE After(bound.types,
                       MapAfter(self.transformation.after.types, bound.mapping))
        Before(bound) ==
            Compared(bound,
                     CompareFromTop(stack, bound.types, 0,
                         IncompatibleTypesOnStackError(bound.types,
                                                       Top(stack, Len(raw)))))
        Arguments(m) ==
            IF IsExc(m) THEN m
            ELSE Before(BindBefore(Top(stack, Len(raw)), UnpackTypes(raw),
                                   m.v, <<>>))
    IN  IF Len(arguments) # Len(self.parameters) THEN Raise("ValueError")
        ELSE IF Len(UnpackTypes(raw)) > Len(stack)
        THEN NotEnoughValuesError(Len(UnpackTypes(raw)), Len(stack))
        ELSE Arguments(BindArguments(arguments, self.parameters, <<>>))


\* Stack.try_pop_type(typ): the stack left, and whether an entry was popped;
\* entries are compared as objects, one object standing for each type
TryPopType(stack, typ) ==
    IF stack # <<>> /\ stack[Len(stack)] = typ
    THEN [stack |-> SubSeq(stack, 1, Len(stack) - 1), popped |-> TRUE]
    ELSE [stack |-> stack, popped |-> FALSE]

\* Stack.pop_type(typ): the error message reads self.top()[0]
PopType(stack, typ) ==
    LET Tried(t) ==
            IF t.popped THEN [exc |-> "", stack |-> t.stack]
            ELSE IF stack = <<>> THEN [exc |-> "IndexError", stack |-> stack]
            ELSE [exc |-> "InvalidStackStateError", stack |-> stack]
    IN  Tried(TryPopType(stack, typ))

\* while self.try_pop_type(typ): ...
RECURSIVE PopWhile(_, _)
PopWhile(stack, typ) ==
    LET Tried(t) == IF t.popped THEN PopWhile(t.stack, typ) ELSE stack
    IN  Tried(TryPopType(stack, typ))

\* for i in range(n): self.pop_type(typ)
RECURSIVE PopTimes(_, _, _)
PopTimes(stack, typ, n) ==
    IF n <= 0 THEN [exc |-> "", stack |-> stack]
    ELSE LET Popped(r) == IF IsExc(r) THEN r ELSE PopTimes(r.stack, typ, n - 1)
         IN  Popped(PopType(stack, typ))

\* Stack.apply, the loop over reversed(before.types), the first i of them left
RECURSIVE PopBefore(_, _, _)
PopBefore(stack, types, i) ==
    IF i = 0 THEN [exc |-> "", stack |-> stack]
    ELSE LET Popped(r) == IF IsExc(r) THEN r ELSE PopBefore(r.stack, types, i - 1)
             One(typ) ==
                 IF IsTypeMany(typ)
                 THEN IF typ.limit < 0
                      THEN [exc |-> "", stack |-> PopWhile(stack, typ.type)]
                      ELSE PopTimes(stack, typ.type, typ.limit)
                 ELSE PopType(stack, typ)
         IN  Popped(One(types[i]))

\* Stack.apply(transformation): the outcome and the stack it leaves
Apply(stack, transformation) ==
    LET before == transformation.before.types
        Extended(r) ==
            IF IsExc(r) THEN r
            ELSE [exc |-> "", stack |-> r.stack \o transformation.after.types]
    IN  IF transformation.k # "StackTransformation"
        THEN [exc |-> "TypeError", stack |-> stack]
        ELSE IF Len(stack) < Len(before)
        THEN [exc |-> "NotEnoughValuesError", expected |-> Len(before),
              got |-> Len(stack), stack |-> stack]
        ELSE Extended(PopBefore(stack, before, Len(before)))

-----------------------------------------------------------------------------
(* Instruction.build_from under test: an instruction is constructed, types *)
(* are pushed on a stack and build_from is called with some arguments.     *)

MaxDepth == 3

StackTypes == {Type("int"), Type("float")}

ParameterLists ==
    {<<>>, <<Generic("T")>>, <<Generic("T"), Generic("T")>>,
     <<Type("int")>>, <<Type("int"), Type("int")>>}

BeforeLists ==
    {<<>>, <<Type("int")>>, <<Type("float"), Type("int")>>,
     <<Generic("T")>>, <<Generic("T"), Generic("T")>>,
     <<Many(Type("int"), 2)>>, <<Type("float"), Many(Type("int"), 2)>>,
     <<Many(Type("int"), -1)>>,
     <<TypeMany(Type("int"), 2)>>, <<TypeMany(Type("int"), -1)>>,
     <<TypeMany(Type("int"), 0)>>}

AfterLists == {<<>>, <<Type("int")>>, <<Generic("T")>>, <<Generic("U")>>}

ArgumentLists == SeqsUpTo(StackTypes, 2)

InitInstr ==
    /\ iPc = "new" /\ iInstr = None /\ iStack = <<>> /\ iArgs = <<>>
    /\ iRet = None
    /\ IdleHeader /\ IdleFile /\ IdleExport /\ IdleAsm /\ IdleParsing

\* Instruction(name, parameters, (before...), (after...))
INew ==
    /\ iPc = "new"
    /\ \E p \in ParameterLists, b \in BeforeLists, a \in AfterLists :
         \E r \in {InstructionInit("op", p, TupleOf(b), TupleOf(a))} :
            /\ iRet' = r
            /\ iInstr' = IF IsExc(r) THEN iInstr ELSE r.v
            /\ iPc' = IF IsExc(r) THEN "new" ELSE "ready"
    /\ UNCHANGED <<iStack, iArgs, headerVars, fileVars, exportVars, asmVars, parsingVars>>

\* Instruction(name, parameters, StackTransformation(before, after)): the
\* transformation is kept as given, its states are whatever carries "types"
INewTransformation ==
    /\ iPc = "new"
    /\ \E p \in ParameterLists, b \in BeforeLists, a \in AfterLists :
         \E r \in {InstructionInit("op", p,
                       StackTransformation([types |-> b], [types |-> a]),
                       NoState)} :
            /\ iRet' = r
            /\ iInstr' = IF IsExc(r) THEN iInstr ELSE r.v
            /\ iPc' = IF IsExc(r) THEN "new" ELSE "ready"
    /\ UNCHANGED <<iStack, iArgs, headerVars, fileVars, exportVars, asmVars, parsingVars>>

\* Stack.append(type)
IAppend ==
    /\ iPc = "ready" /\ Len(iStack) < MaxDepth
    /\ \E t \in StackTypes : iStack' = Append(iStack, t)
    /\ UNCHANGED <<iPc, iInstr, iArgs, iRet, headerVars, fileVars, exportVars,
                   asmVars, parsingVars>>

\* instruction.build_from(stack, *arguments)
IBuildFrom ==
    /\ iPc = "ready"
    /\ \E arguments \in ArgumentLists :
         /\ iArgs' = arguments
         /\ iRet' = BuildFrom(iInstr, iStack, arguments)
    /\ iPc' = "built"
    /\ UNCHANGED <<iInstr, iStack, headerVars, fileVars, exportVars, asmVars, parsingVars>>

\* stack.apply(instruction.transformation)
IApply ==
    /\ iPc = "ready"
    /\ \E r \in {Apply(iStack, iInstr.transformation)} :
         /\ iRet' = [r EXCEPT !.stack = iStack]
         /\ iStack' = r.stack
    /\ iPc' = "applied"
    /\ UNCHANGED <<iInstr, iArgs, headerVars, fileVars, exportVars, asmVars, parsingVars>>

NextInstr == INew \/ INewTransformation \/ IAppend \/ IBuildFrom \/ IApply

SpecInstr == InitInstr /\ [][NextInstr]_vars

-----------------------------------------------------------------------------
(* Instruction.build_from against the stack *)

\* the before-stack of the instruction, expanded
ExpandedBefore == UnpackTypes(iInstr.transformation.before.types)

Shallow == Len(iStack) < Len(ExpandedBefore)

\* the stack entry the i-th entry of the expanded before-stack faces
Facing(i) == iStack[Len(iStack) - Len(ExpandedBefore) + i]

\* a plain entry faces another type, or one generic faces two types
Differs ==
    \/ \E i \in 1..Len(ExpandedBefore) :
         /\ ExpandedBefore[i].k = "Type"
         /\ ExpandedBefore[i].name # Facing(i).name
    \/ \E i, j \in 1..Len(ExpandedBefore) :
         /\ IsGeneric(ExpandedBefore[i])
         /\ ExpandedBefore[j] = ExpandedBefore[i]
         /\ Facing(i) # Facing(j)

\* C10: build_from raises NotEnoughValuesError(length of the expanded
\* before-stack, stack depth) whenever the stack is shallower than the expanded
\* before-stack, otherwise raises IncompatibleTypesOnStackError whenever an
\* entry of the before-stack differs from the entry it faces at the top of
\* the stack, and returns an instruction only when every entry matches.
C10_BuildFrom ==
    iPc = "built" =>
        /\ Shallow => /\ iRet.exc = "NotEnoughValuesError"
                      /\ iRet.expected = Len(ExpandedBefore)
                      /\ iRet.got = Len(iStack)
        /\ (~Shallow /\ Differs) => iRet.exc = "IncompatibleTypesOnStackError"
        /\ iRet.exc = "" => (~Shallow /\ ~Differs)


-----------------------------------------------------------------------------
(* The stack of a function as its source describes it *)

\* the k-th node of the source is `add int, int`, and between it and the
\* definition of its function there is one push and nothing else
ShallowAddAt(k) ==
    /\ k \in 3..Len(aSource)
    /\ aSource[k] = AddInt
    /\ aSource[k - 1].node = "instruction" /\ aSource[k - 1].opname = "push"
    /\ aSource[k - 2].node = "func"

\* C11: a source in which `add int, int` is reached with one value on the
\* stack of its function fails with NotEnoughValuesError, and no file is
\* returned or written.
C11_StackError ==
    \A k \in 1..Len(aSource) :
        (ShallowAddAt(k) /\ aNext >= k) =>
            /\ aPc = "raised"
            /\ aExc = "NotEnoughValuesError"
            /\ fRet = None


-----------------------------------------------------------------------------
(* Stack.apply on a before-state that is one Many *)

\* the before-state of the applied transformation is Many(T, N) alone
ManyApplied ==
    /\ iPc = "applied"
    /\ Len(iInstr.transformation.before.types) = 1
    /\ IsTypeMany(iInstr.transformation.before.types[1])

ManyBefore == iInstr.transformation.before.types[1]

\* how many entries at the top of the stack are T
RECURSIVE RunOf(_, _)
RunOf(stack, typ) ==
    IF stack # <<>> /\ stack[Len(stack)] = typ
    THEN 1 + RunOf(SubSeq(stack, 1, Len(stack) - 1), typ)
    ELSE 0

\* apply succeeded, popped n entries and pushed the after-state
PoppedExactly(n) ==
    /\ iRet.exc = ""
    /\ iStack = SubSeq(iRet.stack, 1, Len(iRet.stack) - n)
                \o iInstr.transformation.after.types

\* C12: Stack.apply with the before-state Many(T, N) pops exactly N entries
\* when N >= 0 and the N top entries are T; when N < 0 it pops the entries
\* of type T at the top and stops at the first other entry or at the empty
\* stack, and succeeds with nothing popped when the stack is empty or its
\* top is not T.
C12_ApplyMany ==
    ManyApplied =>
        /\ (ManyBefore.limit >= 0
            /\ RunOf(iRet.stack, ManyBefore.type) >= ManyBefore.limit)
                => PoppedExactly(ManyBefore.limit)
        /\ ManyBefore.limit < 0
                => PoppedExactly(RunOf(iRet.stack, ManyBefore.type))


-----------------------------------------------------------------------------
(* Stack unification of a generic template *)

\* the types with X in the place of Generic('T')
Bound(types, X) ==
    [i \in 1..Len(types) |-> IF types[i] = Generic("T") THEN X ELSE types[i]]

\* build_from was called on a template whose before-state is made of
\* Generic('T') and whose after-state holds Generic('T'), on a stack whose
\* top entries, as many as the before-state is long, are X, every argument
\* being X as well
UnifiedWith(X) ==
    /\ iPc = "built"
    /\ iInstr.transformation.before.types # <<>>
    /\ \A i \in 1..Len(iInstr.transformation.before.types) :
           iInstr.transformation.before.types[i] = Generic("T")
    /\ \E i \in 1..Len(iInstr.transformation.after.types) :
           iInstr.transformation.after.types[i] = Generic("T")
    /\ Len(iArgs) = Len(iInstr.parameters)
    /\ \A i \in 1..Len(iArgs) : iArgs[i] = X
    /\ Len(iStack) >= Len(iInstr.transformation.before.types)
    /\ \A i \in 1..Len(iInstr.transformation.before.types) :
           iStack[Len(iStack) + 1 - i] = X

\* C13: build_from on a template with Generic('T') in its before- and
\* after-state, on a stack whose top is the concrete type X, returns an
\* instruction whose before- and after-state hold X wherever the template
\* holds Generic('T'), and applying its transformation replaces the top of
\* the stack by that after-state.
C13_Unification ==
    \A X \in StackTypes :
        UnifiedWith(X) =>
            /\ iRet.exc = ""
            /\ iRet.v.transformation.before.types
                   = Bound(iInstr.transformation.before.types, X)
            /\ iRet.v.transformation.after.types
                   = Bound(iInstr.transformation.after.types, X)
            /\ Apply(iStack, iRet.v.transformation)
                   = [exc |-> "",
                      stack |-> SubSeq(iStack, 1,
                                    Len(iStack)
                                    - Len(iInstr.transformation.before.types))
                                \o Bound(iInstr.transformation.after.types, X)]


-----------------------------------------------------------------------------
(* The bytes of a call *)

\* the i-th instruction of the code section is a call
IsCall(i) == aCode.instructions[i].opname = "call"

\* the label its argument names
Callee(i) ==
    GetLabel(aLabels, aObjects, aCode.instructions[i].arguments[1].value.value.s)

\* the node of the source that defines the function `name`
DefinitionOf(name) ==
    CHOOSE k \in 1..Len(aSource) : aSource[k].node = "func" /\ aSource[k].name = name

\* the names of the locals declared in the body of the function defined by
\* the k-th node: the variable definitions up to the next function
DeclaredLocals(k) ==
    {aSource[j].name : j \in {j \in (k + 1)..Len(aSource) :
        /\ aSource[j].node = "var"
        /\ \A m \in (k + 1)..j : aSource[m].node # "func"}}

\* opcode, rptr operand, num_params, num_locals
CallBytes(i, callee, numParams, numLocals) ==
    SignedLE(INSTRUCTIONS.call.code, OPCODE_SIZE)
    \o SignedLE(callee.offset - aCode.instructions[i].offset, NATIVE_SIZE)
    \o <<numParams, numLocals>>

\* the emitted call is made of the four parts, with the counts of a callee
\* defined in the source taken from its definition
CallEmitted(i) ==
    LET callee == aObjects[Callee(i).v]
        k == DefinitionOf(callee.name)
    IN  /\ ~IsExc(Callee(i))
        /\ IsFunctionReference(callee)
        /\ aCodeBytes[i] = CallBytes(i, callee, NumParams(callee), NumLocals(callee))
        /\ callee.kind = "func" =>
               /\ NumParams(callee) = Len(aSource[k].parameters)
               /\ NumLocals(callee) = Cardinality(DeclaredLocals(k))

\* a call of the source names a label that is no function
CallsNonFunction ==
    /\ Relocated \/ aPc = "raised"
    /\ \E i \in 1..Len(aCode.instructions) :
           /\ IsCall(i)
           /\ ~IsExc(Callee(i))
           /\ ~IsFunctionReference(aObjects[Callee(i).v])

\* C14: every emitted call is the opcode, the rptr operand, one byte
\* num_params and one byte num_locals of the callee, num_locals being the
\* number of locals declared in the callee's body wherever the callee is
\* defined; a call that names a label that is no function is rejected and
\* no file is returned.
C14_CallBytes ==
    /\ Emitted => \A i \in 1..Len(aCode.instructions) : IsCall(i) => CallEmitted(i)
    /\ CallsNonFunction => ~Emitted

\* no local or parameter of the function defined last has the name the
\* i-th instruction refers to
NotCaptured(i) ==
    LET name == aCode.instructions[i].arguments[1].value.value.s
    IN  aFunction # 0 =>
            /\ IsExc(Lookup(aObjects[aFunction].locals, name))
            /\ IsExc(Lookup(aObjects[aFunction].parameters, name))

\* the same without the calls whose operand is taken for a local
CallBytesUncaptured ==
    /\ Emitted => \A i \in 1..Len(aCode.instructions) :
                      (IsCall(i) /\ NotCaptured(i)) => CallEmitted(i)
    /\ CallsNonFunction => ~Emitted

\* a call was emitted before the definition of its callee, which has locals
ForwardCallEmitted ==
    /\ Emitted
    /\ \E i \in 1..Len(aCode.instructions) :
           /\ IsCall(i) /\ NotCaptured(i)
           /\ aObjects[Callee(i).v].kind = "func"
           /\ aObjects[Callee(i).v].cursor > Position(i)
           /\ NumLocals(aObjects[Callee(i).v]) > 0

\* a call of a plain label was rejected
CallRejected == CallsNonFunction /\ aPc = "raised" /\ aExc = "TypeError"


-----------------------------------------------------------------------------
(* parsing/tokenizer.py: the Tokenizer. The source is a sequence of       *)
(* characters, a lexeme the sequence of its characters; _current counts   *)
(* from 0 as in the code. The characters of the inputs are the ones       *)
(* named here.                                                            *)

LF == "\n"
TAB == "\t"
CR == "\r"
BSL == "\\"
DQ == "\""
SQ == "'"

\* str.isalpha, str.isdigit and str.isalnum on the characters of the inputs
Letters == {"a", "b", "f", "n", "r", "t", "x"}
Digits == {"0", "1", "5"}
IsAlpha(c) == c \in Letters
IsDigit(c) == c \in Digits
IsAlnum(c) == IsAlpha(c) \/ IsDigit(c)

\* '0' <= c <= '9' or 'a' <= c.lower() <= 'f'
IsHexDigit(c) == c \in Digits \cup {"a", "b", "f"}

\* Tokenizer._is_identifier_first_character, _is_identifier_character
IdentifierMarks == {"_", "$", "#", "%", "!"}
IsIdentifierFirstCharacter(c) == IsAlpha(c) \/ c \in IdentifierMarks
IsIdentifierCharacter(c) == IsAlnum(c) \/ c \in IdentifierMarks

\* Tokenizer._get_special_character: the characters it knows, and its result
SpecialCharacters == {"r", "t", "n", BSL, SQ}
GetSpecialCharacter(c) ==
    CASE c = "r" -> CR
      [] c = "t" -> TAB
      [] c = "n" -> LF
      [] OTHER -> c

TokenizerOptions ==
    {"EmitNewLine", "SkipSpacesBeforeEating", "EmitWhiteSpace", "EmitComments",
     "IncludeCommentCharacter", "IncludeCommentEOL"}

\* asm_token.Token(line, char, type, value)
AsmToken(line, char, type, value) ==
    [line |-> line, char |-> char, type |-> type, value |-> value]

\* self._source[i]: past the end it raises IndexError, a negative index
\* counts from the end
HasChar(src, i) == -Len(src) <= i /\ i < Len(src)
CharAt(src, i) == src[(IF i < 0 THEN i + Len(src) ELSE i) + 1]

\* where a loop `while self.char in chars: self._current += 1` started at
\* i stops: at the first character outside chars, or past the end, where
\* self.char raises IndexError
Skip(src, i, chars) ==
    CHOOSE j \in i..Len(src) :
        /\ j = Len(src) \/ CharAt(src, j) \notin chars
        /\ \A k \in i..(j - 1) : CharAt(src, k) \in chars

Scanned(src, i, j) == SubSeq(src, i + 1, j)

\* Tokenizer._next_char on the position p = [line, char]
NextChar(p, c) ==
    IF c = LF THEN [line |-> p.line + 1, char |-> 1]
    ELSE IF c = CR THEN [line |-> p.line, char |-> 1]
    ELSE [line |-> p.line, char |-> p.char + 1]

\* Tokenizer._next_string
RECURSIVE NextString(_, _)
NextString(p, s) ==
    IF s = <<>> THEN p ELSE NextString(NextChar(p, Head(s)), Tail(s))

\* what a _get_ helper started at _current = i leaves: the lexeme and
\* _current, or the exception and _current
Got(current, v) == [exc |-> "", current |-> current, v |-> v]
Stopped(e, current) == [exc |-> e, current |-> current]

\* Tokenizer._get_line_comment: IndexError is caught inside
GetLineComment(src, options, i) ==
    LET j == Skip(src, i, Range(src) \ {LF})
    IN  IF j < Len(src) /\ options["IncludeCommentEOL"]
        THEN Got(j + 1, Scanned(src, i, j + 1))
        ELSE Got(j, Scanned(src, i, j))

\* Tokenizer._get_identifier
GetIdentifier(src, i) ==
    LET j == Skip(src, i, {c \in Range(src) : IsIdentifierCharacter(c)})
    IN  IF ~IsIdentifierFirstCharacter(CharAt(src, i)) THEN Stopped("ValueError", i)
        ELSE IF j = Len(src) THEN Stopped("IndexError", j)
        ELSE Got(j - 1, Scanned(src, i, j))

\* Tokenizer._get_integer16
GetInteger16(src, i) ==
    LET j == Skip(src, i, {c \in Range(src) : IsHexDigit(c)})
    IN  IF j = Len(src) THEN Stopped("IndexError", j)
        ELSE Got(j - 1, Scanned(src, i, j))

\* Tokenizer._get_hex
GetHex(src, i) ==
    IF ~HasChar(src, i) THEN Stopped("IndexError", i)
    ELSE IF CharAt(src, i) # "x" THEN Stopped("ValueError", i)
    ELSE GetInteger16(src, i + 1)

\* Tokenizer._get_integer10
GetInteger10(src, i) ==
    LET k == IF CharAt(src, i) = "-" THEN i + 1 ELSE i
        j == Skip(src, k, {c \in Range(src) : IsDigit(c)})
    IN  IF ~HasChar(src, i) THEN Stopped("IndexError", i)
        ELSE IF j = Len(src) THEN Stopped("IndexError", j)
        ELSE IF j > i THEN Got(j - 1, Scanned(src, i, j))
        ELSE Got(i, <<>>)

\* Tokenizer._get_number
GetNumber(src, i) ==
    LET left == GetInteger10(src, i)
        p == IF left.v = <<>> THEN left.current ELSE left.current + 1
        Fraction(right) ==
            IF IsExc(right) THEN right
            ELSE IF right.v # <<>> THEN Got(right.current, left.v \o <<".">> \o right.v)
            ELSE Got(p, left.v \o <<".">>)
    IN  IF IsExc(left) THEN left
        ELSE IF left.v = <<>> /\ CharAt(src, p) # "." THEN Stopped("ValueError", p)
        ELSE IF CharAt(src, p) = "." THEN Fraction(GetInteger10(src, p + 1))
        ELSE Got(p - 1, left.v)

\* the body of the loop `while self.char != '"'` of advance
RECURSIVE GetString(_, _, _)
GetString(src, i, buffer) ==
    IF ~HasChar(src, i) THEN Stopped("IndexError", i)
    ELSE IF CharAt(src, i) = DQ THEN Got(i, buffer)
    ELSE IF CharAt(src, i) # BSL THEN GetString(src, i + 1, Append(buffer, CharAt(src, i)))
    ELSE IF ~HasChar(src, i + 1) THEN Stopped("IndexError", i + 1)
    ELSE IF CharAt(src, i + 1) \in SpecialCharacters
    THEN GetString(src, i + 2,
                   Append(buffer, GetSpecialCharacter(CharAt(src, i + 1))))
    ELSE GetString(src, i + 1, Append(buffer, BSL))

\* the char literal branch of advance, i being the index after the quote
GetCharLiteral(src, i) ==
    LET escaped == /\ CharAt(src, i) = BSL
                   /\ CharAt(src, i + 1) \in SpecialCharacters
        char == IF escaped THEN GetSpecialCharacter(CharAt(src, i + 1))
                ELSE CharAt(src, i)
        j == IF escaped THEN i + 2 ELSE i + 1
    IN  IF ~HasChar(src, i) THEN Stopped("IndexError", i)
        ELSE IF CharAt(src, i) = BSL /\ ~HasChar(src, i + 1)
        THEN Stopped("IndexError", i + 1)
        ELSE IF ~HasChar(src, j) THEN Stopped("IndexError", j)
        ELSE IF CharAt(src, j) # SQ THEN Stopped("ValueError", j)
        ELSE Got(j, <<char>>)

\* what advance leaves: the exception, the cursor and the token
Advanced(e, current, p, token) ==
    [exc |-> e, current |-> current, line |-> p.line, char |-> p.char,
     token |-> token]

\* Tokenizer._create_token(type, value) with _current = current
CreateToken(type, value, current, p) ==
    Advanced("", current + 1,
             NextString(p, IF type \in {"Literal_Char", "Literal_String"}
                           THEN value \o <<"0", "0">> ELSE value),
             AsmToken(p.line, p.char, type, value))

\* the handler of IndexError in advance
CreateEOF(p) == CreateToken("EOF", <<>>, -1, p)

\* return self._create_token(type, self._get_...()) inside advance
CreateFrom(type, got, p) ==
    IF got.exc = "IndexError" THEN CreateEOF(p)
    ELSE IF IsExc(got) THEN Advanced(got.exc, got.current, p, None)
    ELSE CreateToken(type, got.v, got.current, p)

Punctuation ==
    [c \in {"(", ")", "{", "}", ",", ":"} |->
        CASE c = "(" -> "LeftCurvyBracket"
          [] c = ")" -> "RightCurvyBracket"
          [] c = "{" -> "LeftCurlyBracket"
          [] c = "}" -> "RightCurlyBracket"
          [] c = "," -> "Comma"
          [] c = ":" -> "Colon"]

\* Tokenizer.advance from _current = i at the position p: one round of
\* the loop `while self._current >= 0`
RECURSIVE AdvanceFrom(_, _, _, _)
AdvanceFrom(src, options, i, p) ==
    LET char == CharAt(src, i)
        Comment(start) == CreateFrom("Comment", GetLineComment(src, options, start), p)
        Skipped(j) == IF j = Len(src) THEN CreateEOF(p)
                      ELSE AdvanceFrom(src, options, j, p)
        Number(got) ==
            CreateFrom(IF ~IsExc(got) /\ "." \in Range(got.v)
                       THEN "Literal_Float" ELSE "Literal_Int", got, p)
    IN  IF i < 0 THEN Advanced("", i, p, None)
        ELSE IF ~HasChar(src, i) THEN CreateEOF(p)
        ELSE IF char = LF
        THEN IF options["EmitNewLine"] THEN CreateToken("NewLine", <<char>>, i, p)
             ELSE AdvanceFrom(src, options, i + 1, NextChar(p, char))
        ELSE IF char \in {" ", TAB}
        THEN IF options["EmitWhiteSpace"] THEN CreateToken("WhiteSpace", <<char>>, i, p)
             ELSE AdvanceFrom(src, options, i + 1, NextChar(p, char))
        ELSE IF char = ";"
        THEN IF options["EmitComments"]
             THEN Comment(IF options["IncludeCommentCharacter"] THEN i ELSE i + 1)
             ELSE Skipped(Skip(src, i, Range(src) \ {LF}))
        ELSE IF char \in DOMAIN Punctuation
        THEN CreateToken(Punctuation[char], <<char>>, i, p)
        ELSE IF char = "."
        THEN IF HasChar(src, i + 1) /\ IsDigit(CharAt(src, i + 1))
             THEN CreateFrom("Literal_Float", GetNumber(src, i), p)
             ELSE CreateToken("Dot", <<char>>, i, p)
        ELSE IF char = SQ
        THEN CreateFrom("Literal_Char", GetCharLiteral(src, i + 1), p)
        ELSE IF char = DQ
        THEN CreateFrom("Literal_String", GetString(src, i + 1, <<>>), p)
        ELSE IF char = BSL
        THEN IF ~HasChar(src, i + 1) THEN CreateEOF(p)
             ELSE IF CharAt(src, i + 1) = "x"
             THEN CreateFrom("Literal_Hex", GetHex(src, i + 1), p)
             ELSE Advanced("ValueError", i + 1, p, None)
        ELSE IF IsDigit(char) \/ char = "-" THEN Number(GetNumber(src, i))
        ELSE CreateFrom("Identifier", GetIdentifier(src, i), p)

\* Tokenizer.advance()
Advance(src, options, current, line, char) ==
    AdvanceFrom(src, options, current, [line |-> line, char |-> char])


\* Token.__ne__(other) of asm_token.py, `other` being a str, a member of
\* tokens.TokenType or a member of another class (itokenizer.TokenType,
\* which the parser passes); None != other is True
TokenTypeOf(name) == [type |-> "tokens.TokenType", name |-> name]
OtherTokenTypeOf(name) == [type |-> "itokenizer.TokenType", name |-> name]
Str(value) == [type |-> "str", value |-> value]

TokenNe(token, other) ==
    IF token = None THEN Ok(TRUE)
    ELSE IF other.type = "str" THEN Ok(token.value # other.value)
    ELSE IF other.type = "tokens.TokenType" THEN Ok(token.type # other.name)
    ELSE Raise("TypeError")

\* Tokenizer.has_tokens
HasTokens(current, token) ==
    current >= 0 /\ TokenNe(token, TokenTypeOf("EOF")).v

\* ABCMeta: a class can be instantiated when it defines every abstract
\* method of its bases
ITokenizerAbstract ==
    {"has_tokens", "token", "advance", "eat", "__getitem__", "__iter__",
     "__setitem__"}

TokenizerDefines ==
    {"__init__", "token", "char", "next_char", "has_tokens", "emit_newline",
     "advance", "eat", "options", "__getitem__", "__setitem__"}

\* the cursor, the token and the options of the tokenizer
Tokenizer == [current |-> tCurrent, line |-> tLine, char |-> tChar,
              token |-> tToken, options |-> tOptions]

\* the tokenizer after an advance() that left r
After(st, r) ==
    [st EXCEPT !.current = r.current, !.line = r.line, !.char = r.char,
               !.token = r.token]

\* TokenizerOptionsWrapper.options(value)
SetOptions(options, keys, value) ==
    [o \in DOMAIN options |-> IF o \in keys THEN value ELSE options[o]]

\* the loop `while self.token == TokenType.WhiteSpace: self.advance()` of
\* eat: the exception of the advance that raised, and the tokenizer
RECURSIVE SkipSpaces(_, _)
SkipSpaces(src, st) ==
    LET Again(r) == IF IsExc(r) THEN [exc |-> r.exc, st |-> After(st, r)]
                    ELSE SkipSpaces(src, After(st, r))
    IN  IF st.token # None /\ st.token.type = "WhiteSpace"
        THEN Again(Advance(src, st.options, st.current, st.line, st.char))
        ELSE [exc |-> "", st |-> st]

\* Tokenizer.eat(value)
Eat(src, st, value) ==
    LET Within(r) ==
            [exc |-> r.exc,
             st |-> [r.st EXCEPT !.options = SetOptions(@, {"EmitWhiteSpace"}, FALSE)]]
        Compared(skipped, ne) ==
            IF IsExc(skipped) THEN skipped
            ELSE IF IsExc(ne) THEN [exc |-> ne.exc, st |-> skipped.st]
            ELSE IF ne.v THEN [exc |-> "ValueError", st |-> skipped.st]
            ELSE [exc |-> Advance(src, skipped.st.options, skipped.st.current,
                                  skipped.st.line, skipped.st.char).exc,
                  st |-> After(skipped.st,
                               Advance(src, skipped.st.options, skipped.st.current,
                                       skipped.st.line, skipped.st.char))]
        Skipped(skipped) == Compared(skipped, TokenNe(skipped.st.token, value))
    IN  Skipped(IF st.options["SkipSpacesBeforeEating"]
                THEN Within(SkipSpaces(src, [st EXCEPT !.options =
                                         SetOptions(@, {"EmitWhiteSpace"}, TRUE)]))
                ELSE [exc |-> "", st |-> st])

\* a Python value handed to __setitem__: its type and its truth value
PyBool(b) == [type |-> "bool", v |-> b]
PyInt(n) == [type |-> "int", v |-> n # 0]

\* Tokenizer.__setitem__(key, value)

SetItem(options, key, value) ==
    IF value.type # "bool" THEN Raise("TypeError")
    ELSE Ok([options EXCEPT ![key] = value.v])



-----------------------------------------------------------------------------
(* The tokenizer driven call by call. Tokenizer(source) cannot be         *)
(* instantiated, the class leaving __iter__ of ITokenizer abstract; the   *)
(* calls are made on an instance of a subclass that only adds __iter__.   *)

MaxLen == 3
MaxCalls == 4
MaxBlocks == 2

ShortAlphabet == {"a", " ", LF, ";"}

LongSources ==
    {<<"a", " ", "b", LF>>,
     <<";", " ", "a", LF, "a", "b", " ">>,
     <<"a", " ", ";", "b", LF, "1", " ">>,
     <<" ", " ", " ", SQ, BSL, "r", SQ, "x", " ">>,
     <<"a", "a", "a", " ", DQ, CR, DQ, "b", " ">>,
     <<DQ, "a", BSL, "n", DQ, " ", "b", " ">>,
     <<"a", "@">>,
     <<"1", ".", "5", " ", "-", "1", " ", ".", "5", " ">>,
     <<BSL, "x", "1", "f", " ", BSL, "a", " ">>,
     <<"(", "a", ",", "b", ")", ":", "{", "}", ".">>,
     <<"a", TAB, " ", "b", LF, LF, "b", " ">>,
     <<"1", ".", " ", "-", " ", "1", ".", "a", " ">>,
     <<"-", ".", "5", " ", ".", " ", "1", "5", ".", ".", " ">>,
     <<"$", "a", "!", "1", " ", "a", "1", "5">>,
     <<"a", " ", "1", "5">>}

TokenizerSources == LongSources \cup SeqsUpTo(ShortAlphabet, MaxLen)

EatValues ==
    {TokenTypeOf("Identifier"), TokenTypeOf("WhiteSpace"), Str(<<"a">>),
     OtherTokenTypeOf("Identifier")}

BlockOptions == {{"EmitWhiteSpace"}, {"EmitNewLine", "EmitComments"}}

InitTokenizer ==
    /\ tPc = "new" /\ tSource \in TokenizerSources
    /\ tCurrent = 0 /\ tLine = 1 /\ tChar = 1 /\ tToken = None
    /\ tOptions = <<>> /\ tBlocks = <<>> /\ tCalls = 0 /\ tRet = None
    /\ IdleParser
    /\ IdleHeader /\ IdleFile /\ IdleExport /\ IdleAsm /\ IdleInstr

\* Tokenizer(source), or Subclass(source) of a subclass that defines the
\* methods `added`: Tokenizer.__init__ when the class can be instantiated
TNew ==
    /\ tPc = "new"
    /\ \E added \in {{}, {"__iter__"}} :
        IF ITokenizerAbstract \subseteq TokenizerDefines \cup added
        THEN /\ tPc' = "ready"
             /\ tOptions' = [o \in TokenizerOptions |-> FALSE]
             /\ tRet' = [op |-> "new", exc |-> ""]
        ELSE /\ tRet' = [op |-> "new", exc |-> "TypeError"]
             /\ UNCHANGED <<tPc, tOptions>>
    /\ UNCHANGED <<tSource, tCurrent, tLine, tChar, tToken, tBlocks, tCalls,
                   parserVars, headerVars, fileVars, exportVars, asmVars,
                   instrVars>>

\* tokenizer[key] = value, before the first token is asked for
TSetItem ==
    /\ tPc = "ready" /\ tCalls = 0 /\ tBlocks = <<>>
    /\ \E key \in TokenizerOptions, value \in {PyBool(TRUE), PyBool(FALSE), PyInt(1)} :
        \E r \in {SetItem(tOptions, key, value)} :
            /\ tOptions' = IF IsExc(r) THEN tOptions ELSE r.v
            /\ tRet' = [op |-> "setitem", exc |-> r.exc]
    /\ UNCHANGED <<tPc, tSource, tCurrent, tLine, tChar, tToken, tBlocks, tCalls,
                   parserVars, headerVars, fileVars, exportVars, asmVars,
                   instrVars>>

\* tokenizer.advance()
TAdvance ==
    /\ tPc = "ready" /\ tCalls < MaxCalls
    /\ \E r \in {Advance(tSource, tOptions, tCurrent, tLine, tChar)} :
        /\ tCurrent' = r.current /\ tLine' = r.line /\ tChar' = r.char
        /\ tToken' = r.token
        /\ tRet' = [op |-> "advance", exc |-> r.exc, v |-> r.token,
                    before |-> Tokenizer]
    /\ tCalls' = tCalls + 1
    /\ UNCHANGED <<tPc, tSource, tOptions, tBlocks,
                   parserVars, headerVars, fileVars, exportVars, asmVars,
                   instrVars>>

\* tokenizer.eat(value)
TEat ==
    /\ tPc = "ready" /\ tCalls < MaxCalls
    /\ \E value \in EatValues :
        \E r \in {Eat(tSource, Tokenizer, value)} :
            /\ tCurrent' = r.st.current /\ tLine' = r.st.line
            /\ tChar' = r.st.char /\ tToken' = r.st.token
            /\ tOptions' = r.st.options
            /\ tRet' = [op |-> "eat", exc |-> r.exc, value |-> value,
                        before |-> Tokenizer]
    /\ tCalls' = tCalls + 1
    /\ UNCHANGED <<tPc, tSource, tBlocks,
                   parserVars, headerVars, fileVars, exportVars, asmVars,
                   instrVars>>

\* `with tokenizer.options(keys...)`: the __enter__ of the wrapper
TEnter ==
    /\ tPc = "ready" /\ Len(tBlocks) < MaxBlocks
    /\ \E keys \in BlockOptions :
        /\ tBlocks' = Append(tBlocks, [options |-> keys, before |-> tOptions])
        /\ tOptions' = SetOptions(tOptions, keys, TRUE)
    /\ tRet' = [op |-> "enter", exc |-> ""]
    /\ UNCHANGED <<tPc, tSource, tCurrent, tLine, tChar, tToken, tCalls,
                   parserVars, headerVars, fileVars, exportVars, asmVars,
                   instrVars>>

\* the __exit__ of the innermost wrapper, the block ending normally or by
\* an exception
TExit ==
    /\ tPc = "ready" /\ tBlocks # <<>>
    /\ tOptions' = SetOptions(tOptions, tBlocks[Len(tBlocks)].options, FALSE)
    /\ tBlocks' = SubSeq(tBlocks, 1, Len(tBlocks) - 1)
    /\ tRet' = [op |-> "exit", exc |-> "", before |-> tBlocks[Len(tBlocks)].before]
    /\ UNCHANGED <<tPc, tSource, tCurrent, tLine, tChar, tToken, tCalls,
                   parserVars, headerVars, fileVars, exportVars, asmVars,
                   instrVars>>

NextTokenizer == TNew \/ TSetItem \/ TAdvance

SpecTokenizer == InitTokenizer /\ [][NextTokenizer]_vars

\* the sources of the runs with eat and with option blocks
EatSources ==
    {<<"a", " ", "b", LF>>,
     <<" ", "@">>,
     <<"a", " ", " ", "a", " ">>}

InitEat ==
    /\ tPc = "new" /\ tSource \in EatSources
    /\ tCurrent = 0 /\ tLine = 1 /\ tChar = 1 /\ tToken = None
    /\ tOptions = <<>> /\ tBlocks = <<>> /\ tCalls = 0 /\ tRet = None
    /\ IdleParser
    /\ IdleHeader /\ IdleFile /\ IdleExport /\ IdleAsm /\ IdleInstr

NextEat == TNew \/ TSetItem \/ TAdvance \/ TEat \/ TEnter \/ TExit

SpecEat == InitEat /\ [][NextEat]_vars


-----------------------------------------------------------------------------
(* Properties of the token stream *)

IsToken(token, type) == token # None /\ token.type = type

\* the last call was advance(), made when the current token was `type`
AdvancedAfter(type) ==
    /\ tRet # None /\ tRet.op = "advance"
    /\ IsToken(tRet.before.token, type)

\* the last call was advance() and it returned a token
Returned == tRet # None /\ tRet.op = "advance" /\ tRet.exc = "" /\ tRet.v # None

\* C15: once advance() has returned the EOF token, the next advance() on
\* the same tokenizer returns an EOF token again, and has_tokens is false
\* after each of them.
C15_EOFSticky ==
    /\ IsToken(tToken, "EOF") => ~HasTokens(tCurrent, tToken)
    /\ AdvancedAfter("EOF") => Returned /\ tRet.v.type = "EOF"


\* the last advance() raised and left the cursor where it was: the
\* tokenizer being in the state the call was made in, but for the token,
\* every later advance() does the same
Stuck ==
    /\ tRet # None /\ tRet.op = "advance" /\ tRet.exc # ""
    /\ tCurrent = tRet.before.current
    /\ tLine = tRet.before.line /\ tChar = tRet.before.char

\* C16: under every setting of the options each advance() either returns
\* the EOF token or moves the cursor forward, so that repeated calls reach
\* the EOF token; the tokenizer never stays at a position without
\* producing EOF.
C16_ReachesEOF ==
    /\ ~Stuck
    /\ (tRet # None /\ tRet.op = "advance") =>
           \/ Returned /\ tRet.v.type = "EOF"
           \/ tCurrent > tRet.before.current


\* (line, column) of a is not after that of b
NotAfter(a, b) == a.line < b.line \/ (a.line = b.line /\ a.char <= b.char)

\* C17: the (line, column) of the token an advance() returns is not before
\* that of the token the call before it returned, whatever the source
\* holds: escapes in char and string literals, comments.
C17_Monotonic ==
    (Returned /\ tRet.before.token # None) => NotAfter(tRet.before.token, tRet.v)


\* the kind and the lexeme of the tokens that successive advance() calls
\* return on a new tokenizer, up to the EOF token or to the exception
\* that ends them
RECURSIVE StreamFrom(_, _, _, _)
StreamFrom(src, options, st, calls) ==
    LET Rest(r) ==
            IF IsExc(r) THEN <<[type |-> r.exc, value |-> <<>>]>>
            ELSE IF r.token = None \/ r.token.type = "EOF" \/ calls = 0
            THEN <<[type |-> "EOF", value |-> <<>>]>>
            ELSE <<[type |-> r.token.type, value |-> r.token.value]>>
                 \o StreamFrom(src, options, r, calls - 1)
    IN  Rest(Advance(src, options, st.current, st.line, st.char))

Stream(src, options) ==
    StreamFrom(src, options, [current |-> 0, line |-> 1, char |-> 1], Len(src) + 1)

\* the option that emits a kind of token
Emits ==
    [o \in {"EmitNewLine", "EmitWhiteSpace", "EmitComments"} |->
        CASE o = "EmitNewLine" -> "NewLine"
          [] o = "EmitWhiteSpace" -> "WhiteSpace"
          [] o = "EmitComments" -> "Comment"]

Without(stream, type) == SelectSeq(stream, LAMBDA t : t.type # type)

\* the three options are off
Quiet == tPc = "ready" /\ \A o \in DOMAIN Emits : ~tOptions[o]

\* C18: with EmitNewLine, EmitWhiteSpace and EmitComments off no NewLine,
\* WhiteSpace or Comment token is returned, and turning one of them on,
\* under every setting of the other options, only inserts tokens of its
\* kind: the other tokens of the stream are the same, in the same order.
C18_Orthogonal ==
    Quiet =>
        /\ \A i \in 1..Len(Stream(tSource, tOptions)) :
               \A o \in DOMAIN Emits : Stream(tSource, tOptions)[i].type # Emits[o]
        /\ \A o \in DOMAIN Emits :
               Without(Stream(tSource, [tOptions EXCEPT ![o] = TRUE]), Emits[o])
                   = Stream(tSource, tOptions)


-----------------------------------------------------------------------------
(* Scoped option blocks *)

\* the options of a parser (iparser.ParserOptions)
ParserOptions == {"AllowFunctionModifiers", "AllowVariableModifiers"}

\* ConfigurationOptionWrapper.__enter__: every option of the block takes
\* the value given by enabled(), disabled() or set_to()
ConfigurationEnter(options, keys, value) ==
    [o \in DOMAIN options |-> IF o \in keys THEN value ELSE options[o]]

\* ConfigurationOptionWrapper.__exit__: every option of the block takes the
\* opposite of the value of the block
ConfigurationExit(options, keys, value) ==
    [o \in DOMAIN options |-> IF o \in keys THEN ~value ELSE options[o]]

\* the options of an IConfigurable after a block on `keys` with `value`,
\* entered with `options`
AfterBlock(options, keys, value) ==
    ConfigurationExit(ConfigurationEnter(options, keys, value), keys, value)

\* the last operation closed an option block of the tokenizer
Exited == tRet # None /\ tRet.op = "exit"

\* the last operation was eat(), whether it returned or raised
Ate == tRet # None /\ tRet.op = "eat"

\* C19: when an option block is left, every option has the value it had
\* immediately before the block was entered, also when the option had the
\* value of the block before, and when blocks on one option are nested;
\* eat() leaves the options of the tokenizer as it found them, and a block
\* of an IConfigurable leaves its options as it found them.
C19_OptionsRestored ==
    /\ Exited => tOptions = tRet.before
    /\ Ate => tOptions = tRet.before.options
    /\ \A options \in [ParserOptions -> BOOLEAN], value \in BOOLEAN :
        \A keys \in SUBSET ParserOptions :
            AfterBlock(options, keys, value) = options


-----------------------------------------------------------------------------
(* eat *)

\* the token matches the value eat() was given: by kind for a token kind,
\* by lexeme for a string
Matches(token, value) ==
    /\ token # None
    /\ IF value.type = "str" THEN token.value = value.value
                             ELSE token.type = value.name

\* the cursor (index, line, column) and the current token of two
\* tokenizers are the same
SameCursor(a, b) ==
    /\ a.current = b.current /\ a.line = b.line /\ a.char = b.char
    /\ a.token = b.token

\* the tokenizer at the comparison of eat(): the one of the call, the
\* whitespace tokens consumed when SkipSpacesBeforeEating is set
AtComparison(st) ==
    IF st.options["SkipSpacesBeforeEating"]
    THEN SkipSpaces(tSource, [st EXCEPT !.options =
                                  SetOptions(@, {"EmitWhiteSpace"}, TRUE)])
    ELSE [exc |-> "", st |-> st]

\* the tokenizer one advance() after st, made under `options`
OneTokenAfter(st, options) ==
    After(st, Advance(tSource, options, st.current, st.line, st.char))

\* eat() raised as it does for a token that does not match
Unexpected == tRet.exc = "UnexpectedTokenError"

\* C20: eat(v) on a current token that matches v advances the tokenizer
\* by exactly one token; on a token that does not match it fails with
\* UnexpectedToken and leaves the cursor and the current token as they
\* were; with SkipSpacesBeforeEating the whitespace tokens before the
\* compared token are consumed first and are never compared with v.
C20_Eat ==
    Ate =>
        \A c \in {AtComparison(tRet.before)} :
            c.exc = "" =>
                /\ tRet.before.options["SkipSpacesBeforeEating"]
                       => ~IsToken(c.st.token, "WhiteSpace")
                /\ IF Matches(c.st.token, tRet.value)
                   THEN SameCursor(Tokenizer,
                                   OneTokenAfter(c.st, tRet.before.options))
                   ELSE Unexpected /\ SameCursor(Tokenizer, tRet.before)


-----------------------------------------------------------------------------
(* SectionTableEntry: an entry is built, serialized and read back *)

MaxInt32 == 2147483647
MinInt32 == -MaxInt32 - 1

\* names as sequences of character codes: empty, short, of 8 characters,
\* of 9, with a NUL in front, inside and at the end, and not ASCII
EntryNames ==
    {<<>>, <<97>>, <<99, 100>>, SubSeq(LongName, 1, MAX_SECTION_NAME_LENGTH),
     LongName, <<0, 97>>, <<97, 0>>, <<97, 0, 98>>, <<0>>, <<233>>}

EntryNumbers == {0, 1, 255, 256, 65536, 16777216, MaxInt32, -1, -256, MinInt32}

InitEntry ==
    /\ eStage = "args"
    /\ eArgs \in [name : EntryNames, size : EntryNumbers, offset : EntryNumbers]
    /\ eObj = None /\ eBytes = None /\ eBack = None
    /\ IdleHeader /\ IdleQPLFile /\ IdleExport /\ IdleAsm /\ IdleInstr
    /\ IdleParsing

\* SectionTableEntry(name, size, offset)
EntryBuild ==
    /\ eStage = "args"
    /\ eObj' = SectionTableEntryNew(eArgs.name, eArgs.size, eArgs.offset)
    /\ eStage' = "built"
    /\ UNCHANGED <<eArgs, eBytes, eBack, fSections, fTable, fHeader, fRet,
                   headerVars, exportVars, asmVars, instrVars, parsingVars>>

\* entry.to_bytes()
EntryPack ==
    /\ eStage = "built" /\ ~IsExc(eObj)
    /\ eBytes' = EntryToBytes(eObj.v)
    /\ eStage' = "packed"
    /\ UNCHANGED <<eArgs, eObj, eBack, fSections, fTable, fHeader, fRet,
                   headerVars, exportVars, asmVars, instrVars, parsingVars>>

\* SectionTableEntry.from_bytes(bytes)
EntryParse ==
    /\ eStage = "packed" /\ ~IsExc(eBytes)
    /\ eBack' = EntryFromBytes(eBytes.v)
    /\ eStage' = "parsed"
    /\ UNCHANGED <<eArgs, eObj, eBytes, fSections, fTable, fHeader, fRet,
                   headerVars, exportVars, asmVars, instrVars, parsingVars>>

NextEntry == EntryBuild \/ EntryPack \/ EntryParse

SpecEntry == InitEntry /\ [][NextEntry]_vars

\* the name without the nulls at its end
RECURSIVE WithoutPadding(_)
WithoutPadding(name) ==
    IF name # <<>> /\ name[Len(name)] = 0
    THEN WithoutPadding(SubSeq(name, 1, Len(name) - 1))
    ELSE name

\* the entry read back has the name of the entry written, the null padding
\* removed, and its size and offset
SameEntry ==
    /\ Len(eBytes.v) = EntrySize
    /\ ~IsExc(eBack)
    /\ eBack.v.name = WithoutPadding(eObj.v.name)
    /\ eBack.v.size = eObj.v.size
    /\ eBack.v.offset = eObj.v.offset

\* a name of more than 8 characters is rejected by the constructor
LongNameRejected ==
    (eStage # "idle" /\ eStage # "args" /\ Len(eArgs.name) > MAX_SECTION_NAME_LENGTH)
        => (IsExc(eObj) /\ eObj.exc = "IndexError")

\* an ASCII name of at most 8 characters was serialized
AsciiEntry ==
    /\ eStage \in {"packed", "parsed"}
    /\ \A i \in 1..Len(eArgs.name) : eArgs.name[i] < 128

\* the claim as stated: every entry with an ASCII name of at most 8
\* characters is serialized to 16 bytes and read back with the same name,
\* size and offset
C21_Original ==
    /\ AsciiEntry => ~IsExc(eBytes) /\ Len(eBytes.v) = EntrySize
    /\ (AsciiEntry /\ eStage = "parsed") => SameEntry
    /\ LongNameRejected

\* C21: every entry with an ASCII name of at most 8 characters that does
\* not begin with NUL, and a size and an offset of -2^31 .. 2^31-1, is
\* serialized to 16 bytes and read back with the same name, the nulls at
\* its end removed, and the same size and offset; a name of more than 8
\* characters is rejected by the constructor.
C21_EntryRoundTrip ==
    /\ AsciiEntry => ~IsExc(eBytes) /\ Len(eBytes.v) = EntrySize
    /\ (AsciiEntry /\ eStage = "parsed"
            /\ (eArgs.name = <<>> \/ eArgs.name[1] # 0)) => SameEntry
    /\ LongNameRejected

C21_Witness ==
    /\ eStage = "parsed"
    /\ Len(eArgs.name) = MAX_SECTION_NAME_LENGTH
    /\ eArgs.size = MaxInt32 /\ eArgs.offset = MinInt32
    /\ eBack.v.name = eArgs.name


-----------------------------------------------------------------------------
(* Identifiers and numbers *)

\* the i-th character of the source (counted from 1) is part of a line
\* comment, from its ";" up to the end of the line
InComment(src, i) ==
    \E j \in 1..i : src[j] = ";" /\ \A k \in j..i : src[k] # LF

\* the characters between the tokens of a source
IsBlank(c) == c \in {" ", TAB, LF}

\* the last call was advance(), made on the tokenizer as constructed
FirstAdvance ==
    /\ tRet # None /\ tRet.op = "advance"
    /\ tRet.before.current = 0 /\ tRet.before.token = None

\* the lexeme of the token advance() returned is the run of identifier
\* characters of the source that ends before the cursor, and the run does
\* not go on at the cursor
ReturnedRun ==
    LET lexeme == tRet.v.value
        n == Len(lexeme)
    IN  /\ n > 0 /\ n <= tCurrent /\ tCurrent <= Len(tSource)
        /\ lexeme = SubSeq(tSource, tCurrent - n + 1, tCurrent)
        /\ IsIdentifierFirstCharacter(lexeme[1])
        /\ \A k \in 1..n : IsIdentifierCharacter(lexeme[k])
        /\ tCurrent < Len(tSource)
               => ~IsIdentifierCharacter(tSource[tCurrent + 1])

\* C22: an Identifier token holds a whole run of identifier characters of
\* the source, and the first advance() returns EOF only for a source that
\* holds nothing but blanks, newlines and comments: an identifier or a
\* number that ends the source is returned before EOF.
C22_NoTokenDropped ==
    /\ (Returned /\ tRet.v.type = "Identifier") => ReturnedRun
    /\ (FirstAdvance /\ Returned /\ tRet.v.type = "EOF")
           => \A i \in 1..Len(tSource) :
                  IsBlank(tSource[i]) \/ InComment(tSource, i)

\* the lexeme is an optional "-" followed by one digit or more
IsInteger(lexeme) ==
    LET digits == IF lexeme # <<>> /\ lexeme[1] = "-" THEN Tail(lexeme)
                  ELSE lexeme
    IN  digits # <<>> /\ \A k \in 1..Len(digits) : IsDigit(digits[k])

\* the lexeme has a "." directly followed by a digit
HasFraction(lexeme) ==
    \E k \in 1..(Len(lexeme) - 1) : lexeme[k] = "." /\ IsDigit(lexeme[k + 1])

\* C23: an Int token is an optional "-" followed by digits, and a Float
\* token is returned only for a lexeme in which "." is followed by a digit:
\* digits followed by "." and a character that is no digit give an Int
\* token of the digits, not a Float token.
C23_Numbers ==
    /\ (Returned /\ tRet.v.type = "Literal_Int") => IsInteger(tRet.v.value)
    /\ (Returned /\ tRet.v.type = "Literal_Float") => HasFraction(tRet.v.value)


-----------------------------------------------------------------------------
(* Instruction.build_from against its parameters *)

\* the i-th argument has another type than its parameter, a plain type
WrongArgument(i) ==
    /\ iInstr.parameters[i].k = "Type"
    /\ iArgs[i].name # iInstr.parameters[i].name

\* the j-th parameter is a generic that occurred before, and the j-th
\* argument has another type than the argument of the first occurrence
UnboundArgument(j) ==
    /\ IsGeneric(iInstr.parameters[j])
    /\ \E i \in 1..(j - 1) :
         /\ iInstr.parameters[i] = iInstr.parameters[j]
         /\ iArgs[i].name # iArgs[j].name

\* C24: build_from rejects a call with more or fewer arguments than
\* parameters; with as many, and a stack deep enough, it raises
\* InvalidInstructionArgumentType when an argument has another type than
\* its plain parameter, or than the type bound to its generic parameter at
\* the first occurrence.
C24_ArgumentTypes ==
    iPc = "built" =>
        /\ Len(iArgs) # Len(iInstr.parameters) => iRet.exc = "ValueError"
        /\ (Len(iArgs) = Len(iInstr.parameters) /\ ~Shallow)
               => \A i \in 1..Len(iArgs) :
                      (WrongArgument(i) \/ UnboundArgument(i))
                          => iRet.exc = "InvalidInstructionArgumentType"


-----------------------------------------------------------------------------
(* Stack.apply, all or nothing *)

\* apply was called and raised
ApplyRaised == iPc = "applied" /\ iRet.exc # ""

\* the entries apply had removed from the top when it returned or raised
Removed == Len(iRet.stack) - Len(iStack)

\* C28: when apply raises, the stack is as it was before the call; when it
\* returns, the stack is the old one with entries removed from the top and
\* the after-entries appended in order.
C28_ApplyAtomic ==
    /\ ApplyRaised => (Removed = 0 /\ iStack = iRet.stack)
    /\ (iPc = "applied" /\ iRet.exc = "")
           => \E n \in 0..Len(iRet.stack) :
                  iStack = SubSeq(iRet.stack, 1, Len(iRet.stack) - n)
                           \o iInstr.transformation.after.types


-----------------------------------------------------------------------------
(* Imported functions *)

\* where the imports section starts: after the code section
ImportsBase == CodeBase + aCode.size

\* the data a `load lib` appends to the imports section
LibraryData == SectionData(ReadFile("lib").v.sections)

IsLoad(node) == node.node = "instruction" /\ node.opname = "load"

\* the node of the source that imported the function under the name `name`
IsImportOf(node, name) ==
    /\ node.node = "instruction" /\ node.opname = "import"
    /\ node.arguments # <<>>
    /\ node.arguments[Len(node.arguments)].value.value.s = name

ImportNode(name) == CHOOSE n \in 1..Len(aSource) : IsImportOf(aSource[n], name)

\* how many bytes the imports section held before the data of the file
\* that was the loaded one at the n-th node: the data of the loads before
\* the last one
DataBeforeFile(n) ==
    (Cardinality({m \in 1..(n - 1) : IsLoad(aSource[m])}) - 1) * Len(LibraryData)

\* the offset recorded in the loaded file for the export `name`
ExportedOffset(name) ==
    LibraryExports[CHOOSE i \in 1..Len(LibraryExports) :
                       LibraryExports[i].name = Ascii(name)].offset

\* the imported functions: the function references of the imports section
ImportedFunctions == {k \in Range(aSecLabels.imports) : aObjects[k].kind = "ref"}

\* C25: after relocation the offset of an imported function is the base of
\* the imports section, plus the position of its file's data within the
\* imports section, plus the offset the file's export table records, for
\* the first and for every later loaded file.
C25_ImportOffsets ==
    Relocated =>
        \A k \in ImportedFunctions :
            aObjects[k].offset
                = ImportsBase + DataBeforeFile(ImportNode(aObjects[k].name))
                  + ExportedOffset(aObjects[k].importedFrom)

\* the same for the functions imported from the file loaded first
FirstFileOffsets ==
    Relocated =>
        \A k \in ImportedFunctions :
            DataBeforeFile(ImportNode(aObjects[k].name)) = 0
                => aObjects[k].offset
                       = ImportsBase + ExportedOffset(aObjects[k].importedFrom)

-----------------------------------------------------------------------------
(* Type layout: TypeDefinition.add_field and TypesSection._add_field.     *)

\* the type definitions of the types section
DefinedTypes == Range(aTypes.types)

\* the sizes of the fields of a type, in the order they were added
FieldSizes(o) == [i \in 1..Len(o.fields) |-> SizeOf(o.fields[i].type)]

\* a field whose type is the type that holds it
SelfTyped(o) == \E i \in 1..Len(o.fields) : o.fields[i].type = DefType(o.name)

FieldsPacked(o) ==
    \A i \in 1..Len(o.fields) :
        o.fields[i].offset = SumSeq(SubSeq(FieldSizes(o), 1, i - 1))

TypesSectionSize ==
    SumSeq([i \in 1..Len(aTypes.types) |-> aObjects[aTypes.types[i]].size])

\* C26: at every point of assembly, before and after relocation, a field's
\* offset is the sum of the sizes of the fields added before it to its
\* type, a type's size is the sum of its fields' sizes, and the size of the
\* types section is the sum of the sizes of its types.
C26_TypeLayout ==
    /\ \A k \in DefinedTypes :
           /\ FieldsPacked(aObjects[k])
           /\ aObjects[k].size = SumSeq(FieldSizes(aObjects[k]))
    /\ aTypes.size = TypesSectionSize

\* the same for the types none of whose fields has the type itself
PlainTypesLayout ==
    (\A k \in DefinedTypes : ~SelfTyped(aObjects[k])) => C26_TypeLayout

-----------------------------------------------------------------------------
(* The size reserved for an instruction and the bytes emitted for it.     *)

\* the size CodeSection.on_instruction added to the code cursor for the
\* i-th instruction
Reserved(i) ==
    InstructionSize(aCode.instructions[i].opname, aCode.instructions[i].types)

EmittedLength(i) == Len(aCodeBytes[i])

EmittedBefore(i) == SumSeq([j \in 1..(i - 1) |-> EmittedLength(j)])

\* C29: every instruction is emitted with as many bytes as were reserved
\* for it, the emitted code section is as long as the recorded size, and
\* every instruction is at the code base plus the emitted length of the
\* instructions before it.
C29_EmittedSizes ==
    Emitted =>
        /\ \A i \in 1..Len(aCode.instructions) :
               /\ EmittedLength(i) = Reserved(i)
               /\ aCode.instructions[i].offset = CodeBase + EmittedBefore(i)
        /\ Len(Concat(aCodeBytes)) = aCode.size

\* the i-th instruction has a pointer operand that names a local or a
\* parameter of the function defined last
Captured(i) ==
    LET instruction == aCode.instructions[i]
    IN  /\ aFunction # 0
        /\ \E n \in 1..Len(instruction.types) :
               /\ n <= Len(instruction.arguments)
               /\ \/ IsPointer(instruction.types[n])
                  \/ instruction.types[n] \in {BinType("local"), BinType("arg")}
               /\ LET name == instruction.arguments[n].value.value
                  IN  /\ ~name.isInt
                      /\ \/ ~IsExc(Lookup(aObjects[aFunction].locals, name.s))
                         \/ ~IsExc(Lookup(aObjects[aFunction].parameters, name.s))

\* the same when no operand is taken for a slot of the last function
UncapturedSizes ==
    (Emitted /\ \A i \in 1..Len(aCode.instructions) : ~Captured(i))
        => C29_EmittedSizes

-----------------------------------------------------------------------------
(* The slots of a function's locals and parameters.                       *)

\* the functions defined in the source so far
Functions == {k \in 1..Len(aObjects) : aObjects[k].kind = "func"}

SlotsDistinct(slots) ==
    \A i, j \in 1..Len(slots) : i # j => slots[i].index # slots[j].index

SlotsWithin(slots, n) == \A i \in 1..Len(slots) : slots[i].index \in 0..(n - 1)

\* C30: at every point of assembly the slot indices of a function's locals
\* are pairwise distinct and lie in 0..num_locals-1, and the slot indices
\* of its parameters lie in 0..num_params-1.
C30_SlotIndices ==
    \A k \in Functions :
        /\ SlotsDistinct(aObjects[k].locals)
        /\ SlotsWithin(aObjects[k].locals, NumLocals(aObjects[k]))
        /\ SlotsWithin(aObjects[k].parameters, NumParams(aObjects[k]))

\* the k-th node declares a local or a parameter under a name its function
\* already has
Redeclares(k) ==
    \/ /\ aSource[k].node = "var"
       /\ \E j \in 1..(k - 1) :
              /\ aSource[j].node = "var" /\ aSource[j].name = aSource[k].name
              /\ \A m \in j..k : aSource[m].node # "func"
    \/ /\ aSource[k].node = "func"
       /\ \E i, j \in 1..Len(aSource[k].parameters) :
              i # j /\ aSource[k].parameters[i].name = aSource[k].parameters[j].name

\* the same for the sources that declare every name once
DistinctNamesSlots ==
    (\A k \in 1..Len(aSource) : ~Redeclares(k)) => C30_SlotIndices

-----------------------------------------------------------------------------
(* parsing/parser.py: Parser over an ITokenizer (parsing/itokenizer.py).  *)
(* The tokenizer is any object that meets the interface: `token` is the   *)
(* current token and eat(value) raises UnexpectedTokenError when the      *)
(* current token does not match, and moves to the next token otherwise.   *)
(* A parsing operator takes the tokens and the cursor and gives the       *)
(* exception or the value, and the cursor the tokenizer is left at.       *)

\* itokenizer.Token(line, char, type, value), without its position
IToken(type, value) == [type |-> type, value |-> value]

EOFToken == IToken("EOF", "")

\* what a token is compared with: a str or a TokenType
Keyword(s) == [k |-> "str", s |-> s]
OfType(t) == [k |-> "type", t |-> t]

\* itokenizer.Token.__eq__
TokenEq(token, value) ==
    IF value.k = "str" THEN token.value = value.s ELSE token.type = value.t

\* TokenType.is_literal
IsLiteral(type) ==
    type \in {"Literal_Char", "Literal_Int", "Literal_String", "Literal_Bool",
              "Literal_Float", "Literal_Null", "Literal_Bytes", "Literal_Hex"}

\* the names itokenizer.TokenType defines, of those parser.py uses
ITokenTypes ==
    {"EOF", "Dot", "Identifier", "Literal_Int", "Comma", "LeftCurlyBracket",
     "RightCurlyBracket", "LeftCurvyBracket", "RightCurvyBracket", "Colon",
     "Asterisk"}

Parsed(v, i) == [exc |-> "", v |-> v, i |-> i]
Failed(e, i) == [exc |-> e, v |-> None, i |-> i]

\* ITokenizer.eat(value)
TokenizerEat(tokens, i, value) ==
    IF ~TokenEq(tokens[i], value) THEN Failed("UnexpectedTokenError", i)
    ELSE Parsed(tokens[i], IF i < Len(tokens) THEN i + 1 ELSE i)

\* Parser._get_token: the current token, once eat(value) has accepted it
GetToken(tokens, i, value) ==
    IF value.k = "type" /\ value.t \notin ITokenTypes
    THEN Failed("AttributeError", i)
    ELSE TokenizerEat(tokens, i, value)

\* Parser._try_get_token
TryGetToken(tokens, i, value) ==
    IF value.k = "type" /\ value.t \notin ITokenTypes
    THEN Failed("AttributeError", i)
    ELSE IF TokenEq(tokens[i], value) THEN GetToken(tokens, i, value)
    ELSE Parsed(None, i)

FullyQualifiedName(parts) == [parts |-> parts]

\* Parser._get_fully_qualified_name
GetFullyQualifiedName(tokens, i) ==
    LET RECURSIVE Parts(_, _)
        Parts(parts, j) ==
            LET Named(part) ==
                    IF IsExc(part) THEN part ELSE Parts(Append(parts, part.v), part.i)
                Dotted(dot) ==
                    IF dot.v = None THEN Parsed(FullyQualifiedName(parts), j)
                    ELSE Named(GetToken(tokens, dot.i, OfType("Identifier")))
            IN  Dotted(TryGetToken(tokens, j, OfType("Dot")))
        First(first) == IF IsExc(first) THEN first ELSE Parts(<<first.v>>, first.i)
    IN  First(GetToken(tokens, i, OfType("Identifier")))

\* Parser._get_literal: TokenType has no member Literal, so the raise
\* statement itself raises AttributeError
GetLiteral(tokens, i) ==
    IF ~IsLiteral(tokens[i].type) THEN Failed("AttributeError", i)
    ELSE GetToken(tokens, i, OfType(tokens[i].type))

\* document.Type(name) inside `pointers` document.Pointer
DocumentType(name, pointers) == [name |-> name, pointers |-> pointers]

\* Parser._get_type
ParseType(tokens, i) ==
    LET RECURSIVE Stars(_, _, _)
        Stars(name, n, j) ==
            IF TokenEq(tokens[j], OfType("Asterisk"))
            THEN Stars(name, n + 1, GetToken(tokens, j, OfType("Asterisk")).i)
            ELSE Parsed(DocumentType(name, n), j)
        Named(name) == IF IsExc(name) THEN name ELSE Stars(name.v, 0, name.i)
    IN  Named(GetToken(tokens, i, OfType("Identifier")))

\* document.InstructionArgument(value, type_name)
DocumentArgument(value, type) == [value |-> value, type |-> type]

\* Parser._get_instruction_argument
GetInstructionArgument(tokens, i) ==
    LET Typed_(value, typ) ==
            IF IsExc(typ) THEN typ
            ELSE Parsed(DocumentArgument(value.v, typ.v), typ.i)
        Colon(value, colon) ==
            IF colon.v = None THEN Parsed(DocumentArgument(value.v, None), colon.i)
            ELSE Typed_(value, ParseType(tokens, colon.i))
        Valued(value) ==
            IF IsExc(value) THEN value
            ELSE Colon(value, TryGetToken(tokens, value.i, OfType("Colon")))
    IN  Valued(IF TokenEq(tokens[i], OfType("Identifier"))
               THEN GetFullyQualifiedName(tokens, i)
               ELSE GetLiteral(tokens, i))

\* Parser._get_instruction_arguments
GetInstructionArguments(tokens, i) ==
    LET RECURSIVE More(_, _)
        More(arguments, j) ==
            LET Next_(argument) ==
                    IF IsExc(argument) THEN argument
                    ELSE More(Append(arguments, argument.v), argument.i)
                Comma(comma) ==
                    IF comma.v = None THEN Parsed(arguments, j)
                    ELSE Next_(GetInstructionArgument(tokens, comma.i))
            IN  Comma(TryGetToken(tokens, j, OfType("Comma")))
        First(first) ==
            IF first.exc = "UnexpectedTokenError" THEN Parsed(<<>>, first.i)
            ELSE IF IsExc(first) THEN first
            ELSE More(<<first.v>>, first.i)
    IN  First(GetInstructionArgument(tokens, i))

\* document.Instruction(name, arguments)
DocumentInstruction(name, arguments) == [name |-> name, arguments |-> arguments]

\* Parser._get_instruction
GetInstruction(tokens, i) ==
    LET Built(name, arguments) ==
            IF IsExc(arguments) THEN arguments
            ELSE Parsed(DocumentInstruction(name.v, arguments.v), arguments.i)
        Named(name) ==
            IF IsExc(name) THEN name
            ELSE Built(name, GetInstructionArguments(tokens, name.i))
    IN  Named(GetFullyQualifiedName(tokens, i))

\* Parser._get_parameter
GetParameter(tokens, i) ==
    LET Named(typ, name) == Parsed([name |-> name.v, type |-> typ.v], name.i)
        Typed_(typ) ==
            IF IsExc(typ) THEN typ
            ELSE Named(typ, TryGetToken(tokens, typ.i, OfType("Identifier")))
    IN  Typed_(ParseType(tokens, i))

\* Parser._get_parameters
GetParameters(tokens, i) ==
    LET RECURSIVE More(_, _)
        More(params, j) ==
            LET Next_(param) ==
                    IF IsExc(param) THEN param
                    ELSE More(Append(params, param.v), param.i)
                Comma(comma) ==
                    IF comma.v = None THEN Parsed(params, j)
                    ELSE Next_(GetParameter(tokens, comma.i))
            IN  Comma(TryGetToken(tokens, j, OfType("Comma")))
        First(first) ==
            IF first.exc = "UnexpectedTokenError" THEN Parsed(<<>>, first.i)
            ELSE IF IsExc(first) THEN first
            ELSE More(<<first.v>>, first.i)
    IN  First(GetParameter(tokens, i))

\* Parser._get_function_signature
GetFunctionSignature(tokens, i) ==
    LET Returning(keyword, name, params, returnType) ==
            IF IsExc(returnType) THEN returnType
            ELSE Parsed([keyword |-> keyword.v, name |-> name.v,
                         parameters |-> params.v, returnType |-> returnType.v],
                        returnType.i)
        AfterColon(keyword, name, params, colon) ==
            IF IsExc(colon) THEN colon
            ELSE Returning(keyword, name, params, ParseType(tokens, colon.i))
        Closed(keyword, name, params, right) ==
            IF IsExc(right) THEN right
            ELSE AfterColon(keyword, name, params,
                            TokenizerEat(tokens, right.i, OfType("Colon")))
        WithParameters(keyword, name, params) ==
            IF IsExc(params) THEN params
            ELSE Closed(keyword, name, params,
                        TokenizerEat(tokens, params.i, OfType("RightCurvyBracket")))
        Opened(keyword, name, left) ==
            IF IsExc(left) THEN left
            ELSE WithParameters(keyword, name, GetParameters(tokens, left.i))
        Named(keyword, name) ==
            IF IsExc(name) THEN name
            ELSE Opened(keyword, name,
                        GetToken(tokens, name.i, OfType("LeftCurvyBracket")))
        Begun(keyword) ==
            IF IsExc(keyword) THEN keyword
            ELSE Named(keyword, GetFullyQualifiedName(tokens, keyword.i))
    IN  Begun(GetToken(tokens, i, Keyword("func")))

\* the names `from .iparser import *` brings into parser.py: iparser.__all__
IParserExports == {"IParser"}

\* Parser._get_function_definition: `ParserOptions` is looked up as a
\* global of parser.py once the signature is read
GetFunctionDefinition(tokens, i) ==
    LET Declared(declaration) ==
            IF IsExc(declaration) THEN declaration
            ELSE IF "ParserOptions" \notin IParserExports
            THEN Failed("NameError", declaration.i)
            ELSE Parsed([declaration |-> declaration.v, body |-> <<>>],
                        declaration.i)
    IN  Declared(GetFunctionSignature(tokens, i))

\* an instruction as it is written: its name and its arguments, each a
\* token with the name of its type ("" when none is written)
WrittenInstruction(name, args) == [name |-> name, args |-> args]

WrittenArgument(token, type) == [token |-> token, type |-> type]

\* the tokens of the text `name arg, arg : type, ...`
ArgumentTokens(a) ==
    <<a.token>>
    \o (IF a.type = "" THEN <<>>
        ELSE <<IToken("Colon", ":"), IToken("Identifier", a.type)>>)

RECURSIVE ArgumentsTokens(_)
ArgumentsTokens(args) ==
    IF args = <<>> THEN <<>>
    ELSE IF Len(args) = 1 THEN ArgumentTokens(args[1])
    ELSE ArgumentTokens(args[1]) \o <<IToken("Comma", ",")>>
         \o ArgumentsTokens(Tail(args))

InstructionTokens(w) == <<IToken("Identifier", w.name)>> \o ArgumentsTokens(w.args)

BodyTokens(body) ==
    Concat([k \in 1..Len(body) |-> InstructionTokens(body[k])])
    \o <<IToken("RightCurlyBracket", "}")>>

\* `func f ( int a , int * ) : void {`
SignatureTokens(params) ==
    <<IToken("Identifier", "func"), IToken("Identifier", "f"),
      IToken("LeftCurvyBracket", "(")>>
    \o params
    \o <<IToken("RightCurvyBracket", ")"), IToken("Colon", ":"),
         IToken("Identifier", "void"), IToken("LeftCurlyBracket", "{")>>

\* the node the parser is to build for a written instruction
NodeOf(w) ==
    DocumentInstruction(
        FullyQualifiedName(<<IToken("Identifier", w.name)>>),
        [k \in 1..Len(w.args) |->
            DocumentArgument(
                IF w.args[k].token.type = "Identifier"
                THEN FullyQualifiedName(<<w.args[k].token>>)
                ELSE w.args[k].token,
                IF w.args[k].type = "" THEN None
                ELSE DocumentType(IToken("Identifier", w.args[k].type), 0))])

Nodes(body) == [k \in 1..Len(body) |-> NodeOf(body[k])]

MaxBody == 3

WrittenInstructions ==
    {WrittenInstruction("nop", <<>>),
     WrittenInstruction("ret", <<>>),
     WrittenInstruction("push", <<WrittenArgument(IToken("Literal_Int", "5"), "")>>),
     WrittenInstruction("push", <<WrittenArgument(IToken("Identifier", "x"), "int")>>),
     WrittenInstruction("add", <<WrittenArgument(IToken("Identifier", "int"), ""),
                                 WrittenArgument(IToken("Identifier", "int"), "")>>)}

ParameterTokens ==
    {<<>>,
     <<IToken("Identifier", "int"), IToken("Identifier", "a"), IToken("Comma", ","),
       IToken("Identifier", "int"), IToken("Asterisk", "*")>>}

\* a function as it is written, and a body alone for a tokenizer that
\* stands at the first token after `{`
ParserSources ==
    {[kind |-> kind, params |-> params, body |-> body] :
        kind \in {"function", "body"}, params \in ParameterTokens,
        body \in SeqsUpTo(WrittenInstructions, MaxBody)}

TokensOf(source) ==
    (IF source.kind = "function" THEN SignatureTokens(source.params) ELSE <<>>)
    \o BodyTokens(source.body) \o <<EOFToken>>

InitParser ==
    /\ pSource \in ParserSources
    /\ pStage = pSource.kind
    /\ pTokens = TokensOf(pSource)
    /\ pCursor = 1 /\ pBody = <<>> /\ pRet = None
    /\ IdleTokenizer
    /\ IdleHeader /\ IdleFile /\ IdleExport /\ IdleAsm /\ IdleInstr

OtherThanParser ==
    <<tPc, tSource, tCurrent, tLine, tChar, tToken, tOptions, tBlocks, tCalls,
      tRet, headerVars, fileVars, exportVars, asmVars, instrVars>>

\* parser._get_function_definition(tokenizer)
PGetFunctionDefinition ==
    /\ pStage = "function"
    /\ \E r \in {GetFunctionDefinition(pTokens, pCursor)} :
        /\ pRet' = r
        /\ pCursor' = r.i
        /\ pStage' = IF IsExc(r) THEN "raised" ELSE "returned"
        /\ pBody' = IF IsExc(r) THEN pBody ELSE r.v.body
    /\ UNCHANGED <<pSource, pTokens, OtherThanParser>>

\* parser._get_instruction(tokenizer), called as the body loop calls it:
\* while the current token is not `}`, the node added to the body
PGetInstruction ==
    /\ pStage = "body"
    /\ ~TokenEq(pTokens[pCursor], OfType("RightCurlyBracket"))
    /\ \E r \in {GetInstruction(pTokens, pCursor)} :
        /\ pRet' = r
        /\ pCursor' = r.i
        /\ pStage' = IF IsExc(r) THEN "raised" ELSE "body"
        /\ pBody' = IF IsExc(r) THEN pBody ELSE Append(pBody, r.v)
    /\ UNCHANGED <<pSource, pTokens, OtherThanParser>>

\* parser._try_get_token(tokenizer, TokenType.RightCurlyBracket) ends the
\* body
PEndBody ==
    /\ pStage = "body"
    /\ TokenEq(pTokens[pCursor], OfType("RightCurlyBracket"))
    /\ \E r \in {TryGetToken(pTokens, pCursor, OfType("RightCurlyBracket"))} :
        /\ pRet' = r
        /\ pCursor' = r.i
    /\ pStage' = "returned"
    /\ UNCHANGED <<pSource, pTokens, pBody, OtherThanParser>>

NextParser == PGetFunctionDefinition \/ PGetInstruction \/ PEndBody

SpecParser == InitParser /\ [][NextParser]_vars

\* the call under test is over
ParserDone == pStage \in {"returned", "raised"}

\* C27: parsing a function body yields one Instruction node for each
\* instruction written in the body, in the order written, each with the
\* arguments written for it and no others.
C27_BodyNodes ==
    ParserDone =>
        /\ pRet.exc = ""
        /\ pSource.kind = "function" => pRet.v.body = Nodes(pSource.body)
        /\ pSource.kind = "body" => pBody = Nodes(pSource.body)

\* every instruction of the body is written with an argument
AllWithArguments == \A k \in 1..Len(pSource.body) : pSource.body[k].args # <<>>

\* _get_instruction gives the written nodes when every instruction has an
\* argument
NodesWithArguments ==
    (ParserDone /\ pSource.kind = "body" /\ AllWithArguments)
        => (pRet.exc = "" /\ pBody = Nodes(pSource.body))

\* _get_function_definition never returns
DefinitionRaises ==
    (ParserDone /\ pSource.kind = "function") => pRet.exc = "NameError"


=============================================================================
